---- MODULE Spec2Model ----
(***************************************************************************)
(* auto-commit: a model of the issue-relevance matching engine (keyword    *)
(* extraction, relevance scoring, issue selection), the diff truncation    *)
(* policy and the commit flow of main.                                     *)
(*                                                                         *)
(* A string is a sequence of one-character strings, so that substring      *)
(* tests, case folding, splitting and slicing are computed, not assumed.   *)
(***************************************************************************)
EXTENDS Integers, Sequences, FiniteSets, TLC

---------------------------------------------------------------------------
\* Characters and the string primitives of the source language.

Lower ==
  <<"a", "b", "c", "d", "e", "f", "g", "h", "i", "j", "k", "l", "m",
    "n", "o", "p", "q", "r", "s", "t", "u", "v", "w", "x", "y", "z">>

Upper ==
  <<"A", "B", "C", "D", "E", "F", "G", "H", "I", "J", "K", "L", "M",
    "N", "O", "P", "Q", "R", "S", "T", "U", "V", "W", "X", "Y", "Z">>

LowerCh == {Lower[i] : i \in DOMAIN Lower}

UpperCh == {Upper[i] : i \in DOMAIN Upper}

DigitCh == {"0", "1", "2", "3", "4", "5", "6", "7", "8", "9"}

\* \w of a regular expression
WordCh == LowerCh \cup UpperCh \cup DigitCh \cup {"_"}

\* \s of a regular expression
SpaceCh == {" ", "\n", "\t"}

QuoteCh == {"'", "\""}

toLowerCh(c) ==
  IF c \in UpperCh THEN Lower[CHOOSE i \in DOMAIN Upper : Upper[i] = c] ELSE c

\* String.prototype.toLowerCase
toLowerCase(s) == [i \in 1..Len(s) |-> toLowerCh(s[i])]

\* String.prototype.includes
includes(s, t) ==
  \E i \in 0..(Len(s) - Len(t)) : SubSeq(s, i + 1, i + Len(t)) = t

\* String.prototype.startsWith
startsWith(s, t) == Len(t) <= Len(s) /\ SubSeq(s, 1, Len(t)) = t

\* Array.prototype.includes
arrayIncludes(a, x) == \E i \in DOMAIN a : a[i] = x

Range(a) == {a[i] : i \in DOMAIN a}

Min(a, b) == IF a <= b THEN a ELSE b

Max(a, b) == IF a >= b THEN a ELSE b

RECURSIVE sumSeq(_)
sumSeq(a) == IF a = <<>> THEN 0 ELSE Head(a) + sumSeq(Tail(a))

RECURSIVE concatAll(_)
concatAll(a) == IF a = <<>> THEN <<>> ELSE Head(a) \o concatAll(Tail(a))

\* Array.prototype.filter, for the elements that are members of keep
RECURSIVE filterIn(_, _)
filterIn(a, keep) ==
  IF a = <<>> THEN <<>>
  ELSE IF Head(a) \in keep THEN <<Head(a)>> \o filterIn(Tail(a), keep)
  ELSE filterIn(Tail(a), keep)

\* s.split(/[sep]+/) without the empty strings a leading or trailing
\* separator leaves (every caller filters by length): the maximal runs of
\* characters outside sep, in order.
RECURSIVE splitOn(_, _)
splitOn(s, sep) ==
  IF s = <<>> THEN <<>>
  ELSE IF Head(s) \in sep THEN splitOn(Tail(s), sep)
  ELSE LET ends == {i \in 1..Len(s) : s[i] \in sep}
           n == IF ends = {} THEN Len(s) + 1
                ELSE CHOOSE i \in ends : \A k \in ends : i <= k
       IN <<SubSeq(s, 1, n - 1)>> \o splitOn(SubSeq(s, n, Len(s)), sep)

\* The characters of s that are not word characters.
nonWordOf(s) == Range(s) \ WordCh

\* The maximal runs of word characters of s, as [from, to] positions.
wordRuns(s) ==
  LET starts == {i \in 1..Len(s) :
                   s[i] \in WordCh /\ (i = 1 \/ s[i - 1] \notin WordCh)}
      endOf(i) == CHOOSE j \in i..Len(s) :
                    /\ \A k \in i..j : s[k] \in WordCh
                    /\ (j = Len(s) \/ s[j + 1] \notin WordCh)
      RECURSIVE inOrder(_)
      inOrder(S) ==
        IF S = {} THEN <<>>
        ELSE LET m == CHOOSE i \in S : \A k \in S : i <= k
             IN <<[from |-> m, to |-> endOf(m)]>> \o inOrder(S \ {m})
  IN inOrder(starts)

---------------------------------------------------------------------------
\* extractImportantTerms (gh/ghOps.ts): the term catalogues.

declarationKeywords ==
  <<
    <<"c", "l", "a", "s", "s">>,  \* "class"
    <<"f", "u", "n", "c", "t", "i", "o", "n">>,  \* "function"
    <<"c", "o", "n", "s", "t">>,  \* "const"
    <<"l", "e", "t">>,  \* "let"
    <<"v", "a", "r">>  \* "var"
  >>
importKeywords ==
  <<
    <<"i", "m", "p", "o", "r", "t">>,  \* "import"
    <<"r", "e", "q", "u", "i", "r", "e">>  \* "require"
  >>
apiPattern ==
  <<
    <<"a", "p", "i">>,  \* "api"
    <<"p", "r", "o", "v", "i", "d", "e", "r">>,  \* "provider"
    <<"m", "o", "d", "e", "l">>,  \* "model"
    <<"l", "l", "m">>,  \* "llm"
    <<"a", "n", "t", "h", "r", "o", "p", "i", "c">>,  \* "anthropic"
    <<"o", "p", "e", "n", "a", "i">>,  \* "openai"
    <<"o", "l", "l", "a", "m", "a">>,  \* "ollama"
    <<"c", "l", "a", "u", "d", "e">>,  \* "claude"
    <<"g", "p", "t">>  \* "gpt"
  >>
configPattern ==
  <<
    <<"c", "o", "n", "f", "i", "g">>,  \* "config"
    <<"c", "o", "n", "f", "i", "g", "u", "r", "a", "t", "i", "o", "n">>,  \* "configuration"
    <<"s", "e", "t", "t", "i", "n", "g">>,  \* "setting"
    <<"p", "a", "r", "a", "m", "e", "t", "e", "r">>,  \* "parameter"
    <<"o", "p", "t", "i", "o", "n">>  \* "option"
  >>
conceptPattern ==
  <<
    <<"i", "n", "t", "e", "r", "f", "a", "c", "e">>,  \* "interface"
    <<"t", "y", "p", "e">>,  \* "type"
    <<"e", "n", "u", "m">>,  \* "enum"
    <<"c", "l", "i", "e", "n", "t">>,  \* "client"
    <<"s", "e", "r", "v", "i", "c", "e">>,  \* "service"
    <<"u", "t", "i", "l">>,  \* "util"
    <<"h", "e", "l", "p", "e", "r">>  \* "helper"
  >>
llmKeywords ==
  <<
    <<"l", "l", "m">>,  \* "llm"
    <<"p", "r", "o", "v", "i", "d", "e", "r">>,  \* "provider"
    <<"m", "o", "d", "e", "l">>,  \* "model"
    <<"a", "p", "i">>,  \* "api"
    <<"k", "e", "y">>,  \* "key"
    <<"t", "o", "k", "e", "n">>,  \* "token"
    <<"a", "n", "t", "h", "r", "o", "p", "i", "c">>,  \* "anthropic"
    <<"c", "l", "a", "u", "d", "e">>,  \* "claude"
    <<"o", "p", "e", "n", "a", "i">>,  \* "openai"
    <<"g", "p", "t">>,  \* "gpt"
    <<"o", "l", "l", "a", "m", "a">>,  \* "ollama"
    <<"l", "a", "n", "g", "c", "h", "a", "i", "n">>,  \* "langchain"
    <<"c", "o", "m", "p", "l", "e", "t", "i", "o", "n">>,  \* "completion"
    <<"t", "o", "k", "e", "n", "s">>,  \* "tokens"
    <<"l", "a", "n", "g", "u", "a", "g", "e">>,  \* "language"
    <<"p", "r", "o", "m", "p", "t">>,  \* "prompt"
    <<"c", "h", "a", "t">>,  \* "chat"
    <<"m", "e", "s", "s", "a", "g", "e">>,  \* "message"
    <<"r", "e", "s", "p", "o", "n", "s", "e">>,  \* "response"
    <<"c", "o", "m", "m", "i", "t">>,  \* "commit"
    <<"f", "o", "r", "m", "a", "t">>,  \* "format"
    <<"s", "t", "y", "l", "e">>,  \* "style"
    <<"g", "e", "n", "e", "r", "a", "t", "e">>,  \* "generate"
    <<"s", "e", "m", "a", "n", "t", "i", "c">>,  \* "semantic"
    <<"m", "u", "l", "t", "i", "p", "l", "e">>  \* "multiple"
  >>
compositeTerms ==
  <<
    <<"l", "a", "n", "g", "u", "a", "g", "e", " ", "m", "o", "d", "e", "l">>,  \* "language model"
    <<"a", "p", "i", " ", "k", "e", "y">>,  \* "api key"
    <<"c", "o", "m", "m", "i", "t", " ", "m", "e", "s", "s", "a", "g", "e">>,  \* "commit message"
    <<"c", "o", "m", "m", "i", "t", " ", "f", "o", "r", "m", "a", "t">>,  \* "commit format"
    <<"m", "o", "d", "e", "l", " ", "s", "e", "l", "e", "c", "t", "i", "o", "n">>,  \* "model selection"
    <<"t", "o", "k", "e", "n", " ", "l", "i", "m", "i", "t">>,  \* "token limit"
    <<"c", "h", "a", "t", " ", "m", "o", "d", "e", "l">>,  \* "chat model"
    <<"b", "a", "s", "e", " ", "u", "r", "l">>,  \* "base url"
    <<"s", "y", "s", "t", "e", "m", " ", "p", "r", "o", "m", "p", "t">>,  \* "system prompt"
    <<"d", "e", "f", "a", "u", "l", "t", " ", "m", "o", "d", "e", "l">>,  \* "default model"
    <<"m", "u", "l", "t", "i", "p", "l", "e", " ", "p", "r", "o", "v", "i", "d", "e", "r", "s">>  \* "multiple providers"
  >>
technicalTerms ==
  <<
    <<"a", "p", "i">>,  \* "api"
    <<"p", "r", "o", "v", "i", "d", "e", "r">>,  \* "provider"
    <<"m", "o", "d", "e", "l">>,  \* "model"
    <<"l", "l", "m">>,  \* "llm"
    <<"l", "a", "n", "g", "u", "a", "g", "e", " ", "m", "o", "d", "e", "l">>,  \* "language model"
    <<"a", "n", "t", "h", "r", "o", "p", "i", "c">>,  \* "anthropic"
    <<"o", "p", "e", "n", "a", "i">>,  \* "openai"
    <<"o", "l", "l", "a", "m", "a">>,  \* "ollama"
    <<"c", "l", "a", "u", "d", "e">>,  \* "claude"
    <<"g", "p", "t">>,  \* "gpt"
    <<"c", "o", "n", "f", "i", "g">>,  \* "config"
    <<"i", "n", "t", "e", "g", "r", "a", "t", "i", "o", "n">>,  \* "integration"
    <<"t", "o", "k", "e", "n">>,  \* "token"
    <<"c", "o", "m", "p", "l", "e", "t", "i", "o", "n">>  \* "completion"
  >>
---------------------------------------------------------------------------
\* Weights and limits of the relevance scorer.

TitleWeight == 10

LabelWeight == 8

BodyWeight == 5

TechTitleWeight == 3

TechBodyWeight == 1

MaxResults == 5

\* Bounds of the model.

\* The longest issue list handed to the relevance scorer.
MaxIssues == 6

\* The most characters by which a diff handed to truncateLongDiff exceeds
\* its budget, and the most kilobytes (in steps of half a kilobyte).
MaxExcess == 24

MaxHalfKB == 3

---------------------------------------------------------------------------
VARIABLES
  pc,          \* the position of the run
  inDiff,      \* the diff: the argument of the function under study
  inIssues,    \* the issue list handed to the relevance scorer
  inKeywords,  \* the keywords handed to the relevance scorer
  inMaxLength, \* the budget handed to truncateLongDiff
  result,      \* what the function under study returned
  again,       \* what it returned when applied to its own result
  flags,       \* main: the parsed command line
  config,      \* what the configuration directory stores
  stagedFiles, \* the number of files staged in the repository
  origin,      \* what git remote get-url origin prints during the issue
               \* selection under way
  loc,         \* main: provider, apiKey, selectedFormat, selectedIssue, ...
  sel,         \* searchAndSelectIssue and getRelatedIssues: their locals,
               \* and the commands and prompts they have issued (calls)
  io,          \* the commands, prompts and notices of this run of main
               \* (those of an issue selection are in sel.calls)
  commits,     \* how many times git commit has been executed
  generation   \* what the model gave this run for a commit message:
               \* "none" so far, "error", "blank" or "text"

flowVars ==
  <<flags, config, stagedFiles, origin, loc, sel, io, commits, generation>>

vars ==
  <<pc, inDiff, inIssues, inKeywords, inMaxLength, result, again, flags,
    config, stagedFiles, origin, loc, sel, io, commits, generation>>

\* The commit flow has not been started.
FlowIdle ==
  /\ flags = <<>>
  /\ config = <<>>
  /\ stagedFiles = 0
  /\ origin = <<>>
  /\ loc = <<>>
  /\ sel = <<>>
  /\ io = <<>>
  /\ commits = 0
  /\ generation = "none"


\* A match of one of codePatterns: the whole match and capture group 2
\* (empty where the pattern has no second group).
\* /\b(class|function|const|let|var)\s+([A-Za-z0-9_]+)/g: a keyword that is
\* a whole word, white space, and the word that follows; the scan resumes
\* after the match, so the captured word starts no further match.
RECURSIVE declMatches(_, _, _)
declMatches(s, runs, k) ==
  IF k > Len(runs) THEN {}
  ELSE LET kw == SubSeq(s, runs[k].from, runs[k].to)
           hit == /\ arrayIncludes(declarationKeywords, kw)
                  /\ k < Len(runs)
                  /\ runs[k + 1].from > runs[k].to + 1
                  /\ \A i \in (runs[k].to + 1)..(runs[k + 1].from - 1) :
                       s[i] \in SpaceCh
       IN IF hit
          THEN {[whole |-> SubSeq(s, runs[k].from, runs[k + 1].to),
                 group2 |-> SubSeq(s, runs[k + 1].from, runs[k + 1].to)]}
               \cup declMatches(s, runs, k + 2)
          ELSE declMatches(s, runs, k + 1)

\* /\b(import|require)\s+.*?['"]([^'"]+)['"]/g: the keyword as a whole
\* word, white space (greedy), the shortest stretch without a line break up
\* to a quote that opens a non-empty quoted text, and that text.
RECURSIVE importMatches(_, _, _)
importMatches(s, runs, k) ==
  IF k > Len(runs) THEN {}
  ELSE LET kw == SubSeq(s, runs[k].from, runs[k].to)
           e == runs[k].to
           spaces == {n \in 1..(Len(s) - e) :
                        \A i \in (e + 1)..(e + n) : s[i] \in SpaceCh}
           base == e + Cardinality(spaces) + 1
           opens == {j \in base..(Len(s) - 2) :
                       /\ s[j] \in QuoteCh
                       /\ \A i \in base..(j - 1) : s[i] # "\n"
                       /\ s[j + 1] \notin QuoteCh
                       /\ \E q \in (j + 2)..Len(s) : s[q] \in QuoteCh}
           hit == /\ arrayIncludes(importKeywords, kw)
                  /\ spaces # {}
                  /\ opens # {}
           j == CHOOSE x \in opens : \A y \in opens : x <= y
           closes == {q \in (j + 2)..Len(s) : s[q] \in QuoteCh}
           q == CHOOSE x \in closes : \A y \in closes : x <= y
           later == {n \in (k + 1)..Len(runs) : runs[n].from > q}
       IN IF hit
          THEN {[whole |-> SubSeq(s, runs[k].from, q),
                 group2 |-> SubSeq(s, j + 1, q - 1)]}
               \cup importMatches(s, runs,
                      IF later = {} THEN Len(runs) + 1
                      ELSE CHOOSE x \in later : \A y \in later : x <= y)
          ELSE importMatches(s, runs, k + 1)

\* /\b(w1|w2|...)\b/gi: every whole word that is, up to case, in the list.
catalogueMatches(s, runs, catalogue) ==
  {[whole |-> SubSeq(s, runs[k].from, runs[k].to), group2 |-> <<>>] :
     k \in {n \in DOMAIN runs :
              arrayIncludes(catalogue,
                            toLowerCase(SubSeq(s, runs[n].from, runs[n].to)))}}

\* The term one match adds: group 2 when longer than 3, else the whole
\* match when longer than 3.
termsOfMatch(m) ==
  IF Len(m.group2) > 3 THEN {toLowerCase(m.group2)}
  ELSE IF Len(m.whole) > 3 THEN {toLowerCase(m.whole)}
  ELSE {}

noTerms(diff) == {}

extractImportantTerms(diff) ==
  LET runs == wordRuns(diff)
      matches == declMatches(diff, runs, 1)
                   \cup importMatches(diff, runs, 1)
                   \cup catalogueMatches(diff, runs, apiPattern)
                   \cup catalogueMatches(diff, runs, configPattern)
                   \cup catalogueMatches(diff, runs, conceptPattern)
      diffLower == toLowerCase(diff)
      found == {t \in Range(llmKeywords) : includes(diffLower, t)}
      composite == {t \in Range(compositeTerms) : includes(diffLower, t)}
  IN UNION {termsOfMatch(m) : m \in matches}
       \cup found
       \cup composite
       \cup UNION {{w \in Range(splitOn(t, {" "})) : Len(w) > 3} :
                     t \in composite}

---------------------------------------------------------------------------
\* fuzzyMatchIssues (gh/ghOps.ts).
\* An issue is [number, title, body, labels]; an absent body is the empty
\* string, as issue.body?.toLowerCase() || '' makes it.

\* diff.toLowerCase().replace(/[^\w\s]/g, ' ').split(/\s+/)
\*     .filter(word => word.length > 3)
diffWordsOf(diff) ==
  LET lowered == toLowerCase(diff)
      replaced == [i \in 1..Len(lowered) |->
                     IF lowered[i] \in WordCh \cup SpaceCh
                     THEN lowered[i] ELSE " "]
      words == splitOn(replaced, SpaceCh)
  IN filterIn(words, {w \in Range(words) : Len(w) > 3})

\* for (const term of importantTerms) if (text.includes(term)) score += w
RECURSIVE pointsFor(_, _, _)
pointsFor(text, importantTerms, weight) ==
  IF importantTerms = {} THEN 0
  ELSE LET term == CHOOSE t \in importantTerms : TRUE
       IN (IF includes(text, term) THEN weight ELSE 0)
            + pointsFor(text, importantTerms \ {term}, weight)

\* The label loop with a break at the first term a label holds.
termScoreOncePerLabel(issue, importantTerms) ==
  LET labelNames == [i \in DOMAIN issue.labels |-> toLowerCase(issue.labels[i])]
  IN pointsFor(toLowerCase(issue.title), importantTerms, TitleWeight)
     + sumSeq([i \in DOMAIN labelNames |->
                 IF \E t \in importantTerms : includes(labelNames[i], t)
                 THEN LabelWeight ELSE 0])
     + pointsFor(toLowerCase(issue.body), importantTerms, BodyWeight)

\* The points the important terms give one issue (lines 244-266).
termScore(issue, importantTerms) ==
  LET issueTitle == toLowerCase(issue.title)
      issueBody == toLowerCase(issue.body)
      labelNames == [i \in DOMAIN issue.labels |-> toLowerCase(issue.labels[i])]
  IN pointsFor(issueTitle, importantTerms, TitleWeight)
     + sumSeq([i \in DOMAIN labelNames |->
                 pointsFor(labelNames[i], importantTerms, LabelWeight)])
     + pointsFor(issueBody, importantTerms, BodyWeight)

\* The technical terms matched against the title alone.
technicalScoreOfTitle(issue, diffWords) ==
  LET issueTitle == toLowerCase(issue.title)
  IN sumSeq([i \in DOMAIN technicalTerms |->
       IF includes(issueTitle, technicalTerms[i])
           /\ arrayIncludes(diffWords, technicalTerms[i])
       THEN TechTitleWeight ELSE 0])

\* The points of the broader technical context.
technicalScore(issue, diffWords) ==
  LET issueTitle == toLowerCase(issue.title)
      issueBody == toLowerCase(issue.body)
  IN sumSeq([i \in DOMAIN technicalTerms |->
       (IF includes(issueTitle, technicalTerms[i])
           /\ arrayIncludes(diffWords, technicalTerms[i])
        THEN TechTitleWeight ELSE 0)
       + (IF includes(issueBody, technicalTerms[i])
             /\ arrayIncludes(diffWords, technicalTerms[i])
          THEN TechBodyWeight ELSE 0)])

\* issues.map(issue => ({ ...issue, score }))
scoreIssues(issues, diff) ==
  LET diffWords == diffWordsOf(diff)
      importantTerms == extractImportantTerms(diff)
  IN [i \in DOMAIN issues |->
        [number |-> issues[i].number, title |-> issues[i].title,
         body |-> issues[i].body, labels |-> issues[i].labels,
         score |-> termScore(issues[i], importantTerms)
                     + technicalScore(issues[i], diffWords)]]

\* .filter(issue => issue.score > 0)
positiveOnly(scored) == SelectSeq(scored, LAMBDA x : x.score > 0)

\* Array.prototype.sort is stable: an element goes after every element the
\* comparator does not order after it.
RECURSIVE insertByScore(_, _)
insertByScore(x, sorted) ==
  IF sorted = <<>> THEN <<x>>
  ELSE IF Head(sorted).score >= x.score
       THEN <<Head(sorted)>> \o insertByScore(x, Tail(sorted))
       ELSE <<x>> \o sorted

RECURSIVE insertAscending(_, _)
insertAscending(x, sorted) ==
  IF sorted = <<>> THEN <<x>>
  ELSE IF Head(sorted).score <= x.score
       THEN <<Head(sorted)>> \o insertAscending(x, Tail(sorted))
       ELSE <<x>> \o sorted

\* The comparator with its operands exchanged: a.score - b.score.
RECURSIVE sortAscending(_)
sortAscending(scored) ==
  IF scored = <<>> THEN <<>>
  ELSE insertAscending(scored[Len(scored)],
                       sortAscending(SubSeq(scored, 1, Len(scored) - 1)))

\* .sort((a, b) => b.score - a.score)
RECURSIVE sortByScore(_)
sortByScore(scored) ==
  IF scored = <<>> THEN <<>>
  ELSE insertByScore(scored[Len(scored)],
                     sortByScore(SubSeq(scored, 1, Len(scored) - 1)))

\* The slice without its cap.
uncapped(sorted) == sorted

\* .slice(0, 5)
topResults(sorted) == SubSeq(sorted, 1, Min(Len(sorted), MaxResults))

fuzzyMatchIssues(issues, diff, keywords) ==
  topResults(sortByScore(positiveOnly(scoreIssues(issues, diff))))

---------------------------------------------------------------------------
\* The relevance scorer on its own: inputs drawn from bounded sets.

\* +const apiClient = new AuthProvider(config);\n
diffAuthProvider ==
  <<"+", "c", "o", "n", "s", "t", " ", "a", "p", "i", "C", "l", "i", "e", "n",
    "t", " ", "=", " ", "n", "e", "w", " ", "A", "u", "t", "h", "P", "r", "o",
    "v", "i", "d", "e", "r", "(", "c", "o", "n", "f", "i", "g", ")", ";", "\n">>

\* +fix token limit\n
diffTokenLimit ==
  <<"+", "f", "i", "x", " ", "t", "o", "k", "e", "n", " ", "l", "i", "m", "i",
    "t", "\n">>

\* +  \n
diffBlank == <<"+", " ", " ", "\n">>

\* Fix provider token
titleProvider ==
  <<"F", "i", "x", " ", "p", "r", "o", "v", "i", "d", "e", "r", " ", "t", "o",
    "k", "e", "n">>

\* Provider config token limit
titleConfig ==
  <<"P", "r", "o", "v", "i", "d", "e", "r", " ", "c", "o", "n", "f", "i", "g",
    " ", "t", "o", "k", "e", "n", " ", "l", "i", "m", "i", "t">>

\* Raise the limit
titleLimit ==
  <<"R", "a", "i", "s", "e", " ", "t", "h", "e", " ", "l", "i", "m", "i", "t">>

\* Update README
titleReadme ==
  <<"U", "p", "d", "a", "t", "e", " ", "R", "E", "A", "D", "M", "E">>

\* token api
bodyToken == <<"t", "o", "k", "e", "n", " ", "a", "p", "i">>

\* provider
labelProvider == <<"p", "r", "o", "v", "i", "d", "e", "r">>

ScoreDiffs == {diffAuthProvider, diffTokenLimit, diffBlank}

\* The tracker's issue with number n.
poolIssue(n) ==
  IF n % 4 = 0
  THEN [number |-> n, title |-> titleLimit, body |-> <<>>, labels |-> <<>>]
  ELSE IF n % 4 = 2
  THEN [number |-> n, title |-> titleConfig, body |-> bodyToken,
        labels |-> <<labelProvider>>]
  ELSE IF n % 4 = 3
  THEN [number |-> n, title |-> titleReadme, body |-> titleProvider,
        labels |-> <<>>]
  ELSE [number |-> n, title |-> titleProvider, body |-> <<>>, labels |-> <<>>]

\* The sequences of n distinct members of S.
RECURSIVE arrangements(_, _)
arrangements(S, n) ==
  IF n = 0 THEN {<<>>}
  ELSE UNION {{<<x>> \o p : p \in arrangements(S \ {x}, n - 1)} : x \in S}

\* Issue lists: distinct issues of the pool, in every order.
IssueLists ==
  UNION {{[i \in DOMAIN p |-> poolIssue(p[i])] : p \in arrangements(1..MaxIssues, n)} :
           n \in 0..MaxIssues}

InitScore ==
  /\ pc = "score"
  /\ inDiff \in ScoreDiffs
  /\ inIssues \in IssueLists
  /\ inKeywords = <<>>
  /\ inMaxLength = 0
  /\ result = <<>>
  /\ again = <<>>
  /\ FlowIdle

RunFuzzyMatch ==
  /\ pc = "score"
  /\ result' = fuzzyMatchIssues(inIssues, inDiff, inKeywords)
  /\ pc' = "scored"
  /\ UNCHANGED <<inDiff, inIssues, inKeywords, inMaxLength, again>>
  /\ UNCHANGED flowVars

NextScore == RunFuzzyMatch

SpecScore == InitScore /\ [][NextScore]_vars

\* The place of the issue numbered n in the input list.
inputIndex(n) == CHOOSE i \in DOMAIN inIssues : inIssues[i].number = n

C2_TopOfPositive ==
  pc = "scored" =>
    LET scored == scoreIssues(inIssues, inDiff)
    IN /\ Len(result) <= 5
       /\ \A i \in DOMAIN result :
            /\ result[i].score > 0
            /\ \E k \in DOMAIN scored : scored[k] = result[i]
       /\ \A k \in DOMAIN scored :
            (scored[k].score > 0 /\ scored[k] \notin Range(result)) =>
              /\ Len(result) = 5
              /\ \A i \in DOMAIN result : scored[k].score <= result[i].score

\* C2 witness: more than 5 input issues score above 0, and an issue with
\* score 0 was dropped in another run of the same list.
C2_Witness ==
  /\ pc = "scored"
  /\ Len(result) = 5
  /\ Cardinality({k \in DOMAIN inIssues :
                    scoreIssues(inIssues, inDiff)[k].score > 0}) > 5

---------------------------------------------------------------------------
\* truncateLongDiff (ai/getCommitMessage.ts).

\* String.prototype.substring(start, end): both clamped to 0..length, and
\* exchanged when start > end; positions count from 0.
substring(s, start, end) ==
  LET a == Max(0, Min(start, Len(s)))
      b == Max(0, Min(end, Len(s)))
  IN SubSeq(s, Min(a, b) + 1, Max(a, b))

DigitSeq == <<"0", "1", "2", "3", "4", "5", "6", "7", "8", "9">>

\* The decimal digits of a natural number, as a template literal prints it.
RECURSIVE decimal(_)
decimal(n) ==
  IF n < 10 THEN <<DigitSeq[n + 1]>>
  ELSE decimal(n \div 10) \o <<DigitSeq[(n % 10) + 1]>>

\* Math.round(n / 1024)
roundKB(n) == (2 * n + 1024) \div 2048

\* \n\n[... DIFF TRUNCATED: <kb> KB removed to fit token limits ...]\n\n
truncationMarker(kb) ==
  <<"\n", "\n", "[", ".", ".", ".", " ", "D", "I", "F", "F", " ", "T", "R",
    "U", "N", "C", "A", "T", "E", "D", ":", " ">>
  \o decimal(kb)
  \o <<" ", "K", "B", " ", "r", "e", "m", "o", "v", "e", "d", " ", "t", "o",
       " ", "f", "i", "t", " ", "t", "o", "k", "e", "n", " ", "l", "i", "m",
       "i", "t", "s", " ", ".", ".", ".", "]", "\n", "\n">>

\* Math.floor(maxLength * 0.3) and Math.floor(maxLength * 0.4): the double
\* products floor to these quotients for every budget up to 20000.
truncateLongDiff(diff, maxLength) ==
  IF Len(diff) <= maxLength THEN diff
  ELSE LET beginningLength == (3 * maxLength) \div 10
           beginning == substring(diff, 0, beginningLength)
           endLength == (4 * maxLength) \div 10
           end == substring(diff, Len(diff) - endLength, Len(diff))
           middleLength == maxLength - beginningLength - endLength - 60
           middleStart == (Len(diff) - middleLength) \div 2
           middle == substring(diff, middleStart, middleStart + middleLength)
           marker == truncationMarker(roundKB(Len(diff) - maxLength))
       IN beginning \o marker \o middle \o marker \o end

---------------------------------------------------------------------------
\* truncateLongDiff on its own: diffs and budgets drawn from bounded sets.

\* The budgets of the two call sites, and two small ones.
TruncBudgets == {150, 400, 10000, 15000}

\* A diff of n characters that repeats the first period letters.
makeDiff(n, period) == [i \in 1..n |-> Lower[((i - 1) % period) + 1]]

TruncLengths(maxLength) ==
  {maxLength + e : e \in -1..MaxExcess}
    \cup {maxLength + 512 * k : k \in 1..MaxHalfKB}

InitTrunc ==
  /\ pc = "truncate"
  /\ inMaxLength \in TruncBudgets
  /\ \E n \in TruncLengths(inMaxLength), period \in {1, 7} :
       inDiff = makeDiff(n, period)
  /\ inIssues = <<>>
  /\ inKeywords = <<>>
  /\ result = <<>>
  /\ again = <<>>
  /\ FlowIdle

TruncateOnce ==
  /\ pc = "truncate"
  /\ result' = truncateLongDiff(inDiff, inMaxLength)
  /\ pc' = "truncated"
  /\ UNCHANGED <<inDiff, inIssues, inKeywords, inMaxLength, again>>
  /\ UNCHANGED flowVars

TruncateAgain ==
  /\ pc = "truncated"
  /\ again' = truncateLongDiff(result, inMaxLength)
  /\ pc' = "retruncated"
  /\ UNCHANGED <<inDiff, inIssues, inKeywords, inMaxLength, result>>
  /\ UNCHANGED flowVars

NextTrunc == TruncateOnce \/ TruncateAgain

SpecTrunc == InitTrunc /\ [][NextTrunc]_vars

\* C5 (as stated): diff truncation is idempotent: truncating the truncated
\* diff with the same budget returns it unchanged.
C5_Idempotent == pc = "retruncated" => again = result

---------------------------------------------------------------------------
\* extractKeywordsFromDiff and extractKeywordsUsingLLM (utils.ts).

RECURSIVE trimStart(_)
trimStart(s) ==
  IF s # <<>> /\ Head(s) \in SpaceCh THEN trimStart(Tail(s)) ELSE s

RECURSIVE trimEnd(_)
trimEnd(s) ==
  IF s # <<>> /\ s[Len(s)] \in SpaceCh
  THEN trimEnd(SubSeq(s, 1, Len(s) - 1))
  ELSE s

\* String.prototype.trim
trim(s) == trimEnd(trimStart(s))

\* String.prototype.endsWith
endsWith(s, t) ==
  Len(t) <= Len(s) /\ SubSeq(s, Len(s) - Len(t) + 1, Len(s)) = t

\* Array.prototype.join
RECURSIVE join(_, _)
join(a, sep) ==
  IF a = <<>> THEN <<>>
  ELSE IF Len(a) = 1 THEN a[1]
  ELSE a[1] \o sep \o join(Tail(a), sep)

\* [...new Set(a)]: the first occurrence of each element, in order.
RECURSIVE unique(_)
unique(a) ==
  IF a = <<>> THEN <<>>
  ELSE LET init == unique(SubSeq(a, 1, Len(a) - 1))
       IN IF arrayIncludes(init, a[Len(a)]) THEN init
          ELSE Append(init, a[Len(a)])

keepAll(a, n) == a

\* Array.prototype.slice(0, n)
sliceTo(a, n) == SubSeq(a, 1, Min(Len(a), n))

\* /^\d+$/.test(s)
allDigits(s) == s # <<>> /\ \A i \in DOMAIN s : s[i] \in DigitCh

\* /[a-z][A-Z]/.test(s)
hasCamelCase(s) ==
  \E i \in 1..(Len(s) - 1) : s[i] \in LowerCh /\ s[i + 1] \in UpperCh

\* The most keywords either extractor returns.
KeywordLimit == 20

gitTerms ==
  <<
    \* "diff"
    <<"d", "i", "f", "f">>,
    \* "index"
    <<"i", "n", "d", "e", "x">>,
    <<"@", "@">>,
    \* "commit"
    <<"c", "o", "m", "m", "i", "t">>,
    \* "author"
    <<"a", "u", "t", "h", "o", "r">>,
    \* "date"
    <<"d", "a", "t", "e">>,
    \* "message"
    <<"m", "e", "s", "s", "a", "g", "e">>
  >>

apiTerms ==
  <<
    <<"a", "p", "i">>,
    \* "auth"
    <<"a", "u", "t", "h">>,
    \* "token"
    <<"t", "o", "k", "e", "n">>,
    \* "config"
    <<"c", "o", "n", "f", "i", "g">>,
    \* "provider"
    <<"p", "r", "o", "v", "i", "d", "e", "r">>,
    \* "client"
    <<"c", "l", "i", "e", "n", "t">>,
    \* "server"
    <<"s", "e", "r", "v", "e", "r">>,
    \* "model"
    <<"m", "o", "d", "e", "l">>,
    \* "data"
    <<"d", "a", "t", "a">>,
    \* "service"
    <<"s", "e", "r", "v", "i", "c", "e">>,
    \* "handler"
    <<"h", "a", "n", "d", "l", "e", "r">>,
    \* "controller"
    <<"c", "o", "n", "t", "r", "o", "l", "l", "e", "r">>,
    \* "component"
    <<"c", "o", "m", "p", "o", "n", "e", "n", "t">>,
    \* "interface"
    <<"i", "n", "t", "e", "r", "f", "a", "c", "e">>,
    \* "class"
    <<"c", "l", "a", "s", "s">>,
    \* "function"
    <<"f", "u", "n", "c", "t", "i", "o", "n">>,
    \* "method"
    <<"m", "e", "t", "h", "o", "d">>,
    \* "property"
    <<"p", "r", "o", "p", "e", "r", "t", "y">>,
    \* "parameter"
    <<"p", "a", "r", "a", "m", "e", "t", "e", "r">>
  >>

llmTerms ==
  <<
    <<"l", "l", "m">>,
    \* "langchain"
    <<"l", "a", "n", "g", "c", "h", "a", "i", "n">>,
    \* "anthropic"
    <<"a", "n", "t", "h", "r", "o", "p", "i", "c">>,
    \* "claude"
    <<"c", "l", "a", "u", "d", "e">>,
    \* "openai"
    <<"o", "p", "e", "n", "a", "i">>,
    <<"g", "p", "t">>,
    \* "ollama"
    <<"o", "l", "l", "a", "m", "a">>,
    \* "mistral"
    <<"m", "i", "s", "t", "r", "a", "l">>,
    \* "token"
    <<"t", "o", "k", "e", "n">>,
    \* "model"
    <<"m", "o", "d", "e", "l">>,
    \* "provider"
    <<"p", "r", "o", "v", "i", "d", "e", "r">>,
    \* "prompt"
    <<"p", "r", "o", "m", "p", "t">>
  >>

commonTerms ==
  <<
    \* "function"
    <<"f", "u", "n", "c", "t", "i", "o", "n">>,
    \* "class"
    <<"c", "l", "a", "s", "s">>,
    \* "method"
    <<"m", "e", "t", "h", "o", "d">>,
    \* "variable"
    <<"v", "a", "r", "i", "a", "b", "l", "e">>,
    \* "const"
    <<"c", "o", "n", "s", "t">>,
    <<"l", "e", "t">>,
    <<"v", "a", "r">>,
    \* "string"
    <<"s", "t", "r", "i", "n", "g">>,
    \* "number"
    <<"n", "u", "m", "b", "e", "r">>,
    \* "boolean"
    <<"b", "o", "o", "l", "e", "a", "n">>,
    \* "array"
    <<"a", "r", "r", "a", "y">>,
    \* "object"
    <<"o", "b", "j", "e", "c", "t">>,
    \* "interface"
    <<"i", "n", "t", "e", "r", "f", "a", "c", "e">>,
    \* "type"
    <<"t", "y", "p", "e">>,
    \* "export"
    <<"e", "x", "p", "o", "r", "t">>,
    \* "import"
    <<"i", "m", "p", "o", "r", "t">>,
    \* "require"
    <<"r", "e", "q", "u", "i", "r", "e">>,
    \* "module"
    <<"m", "o", "d", "u", "l", "e">>,
    \* "package"
    <<"p", "a", "c", "k", "a", "g", "e">>,
    \* "default"
    <<"d", "e", "f", "a", "u", "l", "t">>
  >>

\* The added lines of the diff ("+" but not "+++"), each without its "+"
\* and trimmed, joined by one blank.
addedLinesOf(diff) ==
  LET lines == SelectSeq(splitOn(diff, {"\n"}),
                         LAMBDA l : /\ startsWith(l, <<"+">>)
                                    /\ ~startsWith(l, <<"+", "+", "+">>))
  IN join([i \in DOMAIN lines |-> trim(Tail(lines[i]))], <<" ">>)

\* .replace(/[^\w\s.-]/g, ' ').split(/\s+/).filter(...)
rawWordsOf(diff) ==
  LET added == addedLinesOf(diff)
      cleaned == [i \in DOMAIN added |->
                    IF added[i] \in WordCh \cup SpaceCh \cup {".", "-"}
                    THEN added[i] ELSE " "]
  IN SelectSeq(splitOn(cleaned, SpaceCh),
               LAMBDA word : /\ Len(word) > 3
                             /\ ~allDigits(word)
                             /\ ~startsWith(word, <<"-", "-">>)
                             /\ ~arrayIncludes(gitTerms, toLowerCase(word)))

\* The Set technicalTerms, in insertion order.
technicalTermsOf(diff) ==
  LET rawWords == rawWordsOf(diff)
      lowered(a) == [i \in DOMAIN a |-> toLowerCase(a[i])]
      camelCaseTerms == SelectSeq(rawWords, hasCamelCase)
      separatedTerms ==
        SelectSeq(rawWords, LAMBDA word : includes(word, <<"_">>)
                                            \/ includes(word, <<"-">>))
      apiWords ==
        SelectSeq(rawWords,
                  LAMBDA word : \E k \in DOMAIN apiTerms :
                                  includes(toLowerCase(word), apiTerms[k]))
      diffLower == toLowerCase(diff)
      found == SelectSeq(llmTerms, LAMBDA term : includes(diffLower, term))
  IN unique(lowered(camelCaseTerms) \o lowered(separatedTerms)
              \o lowered(apiWords) \o found)

\* The catch of extractKeywordsFromDiff is never entered for a string.
extractKeywordsFromDiff(diff) ==
  LET rawWords == rawWordsOf(diff)
      lower == [i \in DOMAIN rawWords |-> toLowerCase(rawWords[i])]
      keywords == technicalTermsOf(diff)
                    \o SelectSeq(lower, LAMBDA word : Len(word) > 3)
  IN sliceTo(unique(keywords), KeywordLimit)

\* response.replace(/^keywords:|\.$|^.*?:|\n/gi, '').trim(): the first line
\* loses what it has up to its first colon, the text loses a final full
\* stop and every line break.
cleanResponse(response) ==
  LET breaks == {i \in DOMAIN response : response[i] = "\n"}
      firstBreak == IF breaks = {} THEN Len(response) + 1
                    ELSE CHOOSE i \in breaks : \A k \in breaks : i <= k
      colons == {i \in 1..(firstBreak - 1) : response[i] = ":"}
      start == IF colons = {} THEN 1
               ELSE 1 + CHOOSE i \in colons : \A k \in colons : i <= k
      stop == IF Len(response) >= start /\ response[Len(response)] = "."
              THEN Len(response) - 1 ELSE Len(response)
  IN trim(SelectSeq(SubSeq(response, start, stop), LAMBDA c : c # "\n"))

\* kw.replace(/([a-z])([A-Z])/g, '$1 $2')
spaceCamelCase(kw) ==
  concatAll([i \in DOMAIN kw |->
               IF i > 1 /\ kw[i - 1] \in LowerCh /\ kw[i] \in UpperCh
               THEN <<" ", kw[i]>> ELSE <<kw[i]>>])

\* What one keyword adds to derivedKeywords.
derivedKeywordsOf(kw) ==
  (IF endsWith(kw, <<"s">>) /\ Len(kw) > 4
   THEN <<SubSeq(kw, 1, Len(kw) - 1)>>
   ELSE IF ~endsWith(kw, <<"s">>) /\ Len(kw) > 3
   THEN <<kw \o <<"s">>>>
   ELSE <<>>)
  \o (IF includes(kw, <<"-">>)
      THEN SelectSeq(splitOn(kw, {"-"}), LAMBDA p : Len(p) > 3)
      ELSE <<>>)
  \o (IF hasCamelCase(kw)
      THEN SelectSeq(splitOn(toLowerCase(spaceCamelCase(kw)), {" "}),
                     LAMBDA p : Len(p) > 3)
      ELSE <<>>)

\* The keywords extractKeywordsUsingLLM makes of the model's response.
keywordsOfResponse(response) ==
  LET pieces == splitOn(cleanResponse(response), {",", ";", "\n"})
      keywords == SelectSeq([i \in DOMAIN pieces |->
                               toLowerCase(trim(pieces[i]))],
                            LAMBDA kw : Len(kw) > 0)
      derivedKeywords ==
        concatAll([i \in DOMAIN keywords |-> derivedKeywordsOf(keywords[i])])
      allKeywords == unique(keywords \o derivedKeywords)
  IN sliceTo(SelectSeq(allKeywords,
                       LAMBDA kw : ~arrayIncludes(commonTerms, kw)),
             KeywordLimit)

\* LangChainClient.createMessage: the text of the model's answer, trimmed.
createMessage(reply) == trim(reply.content)

\* extractKeywordsUsingLLM: the keywords of the response, or, when the call
\* throws, those of extractKeywordsFromDiff.
extractKeywordsUsingLLM(diff, reply) ==
  IF reply.ok THEN keywordsOfResponse(createMessage(reply))
  ELSE extractKeywordsFromDiff(diff)

---------------------------------------------------------------------------
\* Values of the source language that a command's output parses to, and the
\* replies of the commands the flow runs.

JsNull == [kind |-> "null", items |-> <<>>]

\* {}
JsObject == [kind |-> "object", items |-> <<>>]

JsArray(items) == [kind |-> "array", items |-> items]

\* [null]
JsArrayOfNull == [kind |-> "arrayOfNull", items |-> <<>>]

JsIssue(issue) == [kind |-> "issue", items |-> <<issue>>]

\* No reply yet.
NoReply == [kind |-> "none", items |-> <<>>]

\* A command that exits with a failure, one that cannot be spawned
\* (output() throws), and one whose output is not JSON (JSON.parse throws).
ExitFailure == [kind |-> "exit", items |-> <<>>]

SpawnFailure == [kind |-> "throw", items |-> <<>>]

NotJson == [kind |-> "text", items |-> <<>>]

Failures == {ExitFailure, SpawnFailure, NotJson}

alwaysTruthy(v) == TRUE

\* if (value): null is the one falsy value among these.
truthy(v) == v.kind # "null"

\* The issue lists a gh issue list reply holds.
TrackerLists ==
  {<<>>,
   <<poolIssue(4)>>,
   <<poolIssue(42)>>,
   <<poolIssue(42), poolIssue(7)>>,
   <<poolIssue(42), poolIssue(42)>>}

ListReplies ==
  Failures \cup {JsNull, JsObject, JsArrayOfNull}
    \cup {JsArray(l) : l \in TrackerLists}

\* gh issue view n
ViewReplies(n) ==
  Failures \cup {JsNull, JsObject}
    \cup (IF n > 0 THEN {JsIssue(poolIssue(n))} ELSE {})

\* git remote get-url origin: it prints the URL, fails, or is not spawned.
GitOutcomes == {"ok", "exit", "throw"}

Origins ==
  \* "https://github.com/o/r.git\n"
  {<<"h", "t", "t", "p", "s", ":", "/", "/", "g", "i", "t", "h", "u", "b",
      ".", "c", "o", "m", "/", "o", "/", "r", ".", "g", "i", "t", "\n">>,
   \* "git@github.com:o/r\n"
   <<"g", "i", "t", "@", "g", "i", "t", "h", "u", "b", ".", "c", "o", "m",
       ":", "o", "/", "r", "\n">>,
   \* "https://gitlab.com/o/r.git\n"
   <<"h", "t", "t", "p", "s", ":", "/", "/", "g", "i", "t", "l", "a", "b",
       ".", "c", "o", "m", "/", "o", "/", "r", ".", "g", "i", "t", "\n">>,
   \* "https://github.com\n"
   <<"h", "t", "t", "p", "s", ":", "/", "/", "g", "i", "t", "h", "u", "b",
       ".", "c", "o", "m", "\n">>}

\* A reply of the language model: it throws, or answers with a text.
LLMError == [ok |-> FALSE, content |-> <<>>]

LLMText(content) == [ok |-> TRUE, content |-> content]

KeywordReplies ==
  {LLMError,
   LLMText(<<>>),
   \* "Keywords: provider, token-limit, configs."
   LLMText(<<"K", "e", "y", "w", "o", "r", "d", "s", ":", " ", "p", "r", "o",
       "v", "i", "d", "e", "r", ",", " ", "t", "o", "k", "e", "n", "-", "l",
       "i", "m", "i", "t", ",", " ", "c", "o", "n", "f", "i", "g", "s",
       ".">>)}

\* What the user types at the issue prompts.
Choices ==
  {<<>>, <<"1">>, <<"2">>, <<"0">>, <<"4", "2">>, <<"#", "4", "2">>, <<"#",
      "0">>, <<"#", "x">>, <<"a", "b", "c">>}

Call(cmd, arg) == [cmd |-> cmd, arg |-> arg]

---------------------------------------------------------------------------
\* searchAndSelectIssue and getRelatedIssues (gh/ghOps.ts).

\* The members of a set of numbers, ascending.
RECURSIVE ascending(_)
ascending(S) ==
  IF S = {} THEN <<>>
  ELSE LET m == CHOOSE i \in S : \A k \in S : i <= k
       IN <<m>> \o ascending(S \ {m})

digitValue(c) == CHOOSE d \in 0..9 : DigitSeq[d + 1] = c

RECURSIVE toNumber(_)
toNumber(digits) ==
  IF digits = <<>> THEN 0
  ELSE 10 * toNumber(SubSeq(digits, 1, Len(digits) - 1))
         + digitValue(digits[Len(digits)])

\* parseInt(s, 10): <<n>>, or <<>> for NaN. White space is skipped, a sign
\* is read, and the digits that follow make the number.
parseInt(s) ==
  LET t == trimStart(s)
      signed == t # <<>> /\ Head(t) \in {"+", "-"}
      body == IF signed THEN Tail(t) ELSE t
      n == Cardinality({i \in DOMAIN body :
                          \A k \in 1..i : body[k] \in DigitCh})
      value == toNumber(SubSeq(body, 1, n))
  IN IF n = 0 THEN <<>>
     ELSE IF signed /\ Head(t) = "-" THEN <<0 - value>>
     ELSE <<value>>

anyOrigin(out, url) == TRUE

\* isGitHubRepo: out is the outcome of git remote get-url origin.
isGitHubRepo(out, url) ==
  \* "github.com"
  out = "ok" /\ includes(trim(url), <<"g", "i", "t", "h", "u", "b", ".", "c",
      "o", "m">>)

\* url.match(/[:/]([^/]+\/[^/.]+)(\.git)?$/): group 1 of the leftmost
\* match, or the empty string where getRepoInfo returns null.
repoOf(url) ==
  LET n == Len(url)
      \* ".git"
      ends == {n} \cup (IF endsWith(url, <<".", "g", "i",
          "t">>) THEN {n - 4} ELSE {})
      fits(i, e) ==
        /\ url[i] \in {":", "/"}
        /\ \E j \in (i + 2)..(e - 1) :
             /\ url[j] = "/"
             /\ \A k \in (i + 1)..(j - 1) : url[k] # "/"
             /\ \A k \in (j + 1)..e : url[k] \notin {"/", "."}
      starts == {i \in 1..n : \E e \in ends : fits(i, e)}
      first == CHOOSE i \in starts : \A k \in starts : i <= k
      last == CHOOSE e \in ends : fits(first, e)
  IN IF starts = {} THEN <<>> ELSE SubSeq(url, first + 1, last)

\* getRepoInfo on a printed URL.
getRepoInfo(url) == repoOf(trim(url))

\* diff.match(/#\d+/g) without the "#", then [...new Set(...)].
uniqueIssuesOf(diff) ==
  LET at == ascending({i \in 1..(Len(diff) - 1) :
                         diff[i] = "#" /\ diff[i + 1] \in DigitCh})
      digitsAt(i) ==
        LET n == Cardinality({j \in (i + 1)..Len(diff) :
                                \A k \in (i + 1)..j : diff[k] \in DigitCh})
        IN SubSeq(diff, i + 1, i + n)
  IN unique([k \in DOMAIN at |-> digitsAt(at[k])])

\* keywords.slice(0, 3).join(" ")
searchQueryOf(keywords) == join(sliceTo(keywords, 3), <<" ">>)

\* The locals at the call of searchAndSelectIssue.
SelStart ==
  [calls |-> <<>>, repo |-> <<>>, uniqueIssues |-> <<>>,
   direct |-> NoReply, fuzzy |-> FALSE, issues |-> JsArray(<<>>),
   openIssues |-> JsArray(<<>>), keywords |-> <<>>,
   relatedIssues |-> JsArray(<<>>), allIssues |-> <<>>,
   issueNumber |-> 0, selectedIssue |-> JsNull]

\* getRelatedIssues returns v: its own locals are gone.
relatedReturn(s, v) ==
  [s EXCEPT !.relatedIssues = v, !.issues = JsArray(<<>>),
            !.openIssues = JsArray(<<>>), !.keywords = <<>>,
            !.uniqueIssues = <<>>]

\* searchAndSelectIssue returns v.
selectReturn(s, v) ==
  [s EXCEPT !.selectedIssue = v, !.relatedIssues = JsArray(<<>>),
            !.allIssues = <<>>, !.keywords = <<>>, !.issueNumber = 0]

called(s, cmd, arg) == [s EXCEPT !.calls = Append(@, Call(cmd, arg))]

selFrame ==
  <<inDiff, inIssues, inKeywords, inMaxLength, result, again, flags,
    config, stagedFiles, origin, loc, io, commits, generation>>

\* searchAndSelectIssue, lines 56-60: the origin check.
Sel_CheckOrigin ==
  /\ pc = "sel_origin"
  /\ \E out \in GitOutcomes :
       LET s == called(sel, "git remote get-url origin", <<>>)
       IN IF isGitHubRepo(out, origin)
          THEN sel' = s /\ pc' = "sel_repo"
          ELSE sel' = selectReturn(s, JsNull) /\ pc' = "sel_returned"
  /\ UNCHANGED selFrame

\* searchAndSelectIssue, lines 62-70: getRepoInfo, outside any try.
Sel_RepoInfo ==
  /\ pc = "sel_repo"
  /\ \E out \in GitOutcomes :
       LET s == called(sel, "git remote get-url origin", <<>>)
           repo == IF out = "ok" THEN getRepoInfo(origin) ELSE <<>>
       IN IF out = "throw" THEN sel' = s /\ pc' = "sel_raised"
          ELSE IF repo = <<>>
          THEN sel' = selectReturn(s, JsNull) /\ pc' = "sel_returned"
          ELSE sel' = [s EXCEPT !.repo = repo] /\ pc' = "rel_gh"
  /\ UNCHANGED selFrame

\* getRelatedIssues, lines 606-615: gh --version.
Rel_GhVersion ==
  /\ pc = "rel_gh"
  /\ \E out \in GitOutcomes :
       LET s == called(sel, "gh --version", <<>>)
       IN IF out = "ok" THEN sel' = s /\ pc' = "rel_origin"
          ELSE sel' = relatedReturn(s, JsArray(<<>>)) /\ pc' = "sel_related"
  /\ UNCHANGED selFrame

\* getRelatedIssues, lines 617-625: isGitHubRepo.
Rel_CheckOrigin ==
  /\ pc = "rel_origin"
  /\ \E out \in GitOutcomes :
       LET s == called(sel, "git remote get-url origin", <<>>)
       IN IF isGitHubRepo(out, origin) THEN sel' = s /\ pc' = "rel_repo"
          ELSE sel' = relatedReturn(s, JsArray(<<>>)) /\ pc' = "sel_related"
  /\ UNCHANGED selFrame

\* getRelatedIssues, lines 628-640: the references of the diff and
\* getRepoInfo, whose throw the outer catch turns into [].
Rel_RepoInfo ==
  /\ pc = "rel_repo"
  /\ \E out \in GitOutcomes :
       LET s == called(sel, "git remote get-url origin", <<>>)
           repo == IF out = "ok" THEN getRepoInfo(origin) ELSE <<>>
           uniqueIssues == uniqueIssuesOf(inDiff)
       IN IF repo = <<>>
          THEN sel' = relatedReturn(s, JsArray(<<>>)) /\ pc' = "sel_related"
          ELSE /\ sel' = [s EXCEPT !.uniqueIssues = uniqueIssues]
               /\ pc' = IF Len(uniqueIssues) > 0 THEN "rel_direct"
                        ELSE "rel_open"
  /\ UNCHANGED selFrame

\* What the direct search, with its limit of 100, prints: as ListReplies,
\* or six issues.
DirectReplies ==
  ListReplies \cup
    {JsArray(<<poolIssue(42), poolIssue(7), poolIssue(4), poolIssue(3),
               poolIssue(5), poolIssue(6)>>)}

\* getRelatedIssues, lines 640-668: the direct fetch of the referenced
\* numbers. A failure leaves issues = []; issues.length of null throws into
\* the outer catch (return []); a value whose length is not 0 is returned.
Rel_Direct ==
  /\ pc = "rel_direct"
  /\ \E r \in DirectReplies :
       LET searchQuery ==
             join([i \in DOMAIN sel.uniqueIssues |->
                     <<"#">> \o sel.uniqueIssues[i]], <<" ">>)
           s == [called(sel, "gh issue list --limit 100 --search",
                        searchQuery) EXCEPT !.direct = r]
           issues == IF r \in Failures THEN JsArray(<<>>) ELSE r
       IN IF issues = JsNull
          THEN sel' = relatedReturn(s, JsArray(<<>>)) /\ pc' = "sel_related"
          ELSE IF issues = JsArray(<<>>)
          THEN sel' = s /\ pc' = "rel_open"
          ELSE sel' = relatedReturn(s, issues) /\ pc' = "sel_related"
  /\ UNCHANGED selFrame

\* getRelatedIssues, lines 669-686: the open issues for fuzzy matching.
Rel_Open ==
  /\ pc = "rel_open"
  /\ \E r \in ListReplies :
       LET s == [called(sel, "gh issue list --limit 30 --state open", <<>>)
                   EXCEPT !.fuzzy = TRUE]
       IN IF r \in Failures
          THEN sel' = relatedReturn(s, s.issues) /\ pc' = "sel_related"
          ELSE sel' = [s EXCEPT !.openIssues = r] /\ pc' = "rel_keywords"
  /\ UNCHANGED selFrame

fallbackWithoutKeywords(openIssues, diff, keywords) ==
  IF openIssues.kind = "array" /\ Len(openIssues.items) > 0
  THEN LET scoredIssues == fuzzyMatchIssues(openIssues.items, diff, keywords)
       IN [issues |-> JsArray(scoredIssues),
           fallback |-> Len(scoredIssues) = 0]
  ELSE [issues |-> JsArray(<<>>), fallback |-> FALSE]

fallbackWithKeywords(openIssues, diff, keywords) ==
  IF openIssues.kind = "array" /\ Len(openIssues.items) > 0
  THEN [issues |-> JsArray(fuzzyMatchIssues(openIssues.items, diff,
                                            keywords)),
        fallback |-> Len(keywords) > 0]
  ELSE [issues |-> JsArray(<<>>), fallback |-> FALSE]

\* What lines 699-722 make of the open issues and the keywords: the value
\* of issues, and whether the fallback search is to run. openIssues.length
\* of null, and issue.title of a null issue, throw into the catch of line
\* 723.
matchOpenIssues(openIssues, diff, keywords) ==
  IF openIssues.kind = "array" /\ Len(openIssues.items) > 0
  THEN LET scoredIssues == fuzzyMatchIssues(openIssues.items, diff, keywords)
       IN [issues |-> JsArray(scoredIssues),
           fallback |-> Len(scoredIssues) = 0 /\ Len(keywords) > 0]
  ELSE [issues |-> JsArray(<<>>), fallback |-> FALSE]

\* getRelatedIssues, lines 688-722: the keywords, from the language model
\* when there are an API key and a provider, and the fuzzy match.
Rel_Keywords ==
  /\ pc = "rel_keywords"
  /\ \E reply \in KeywordReplies :
       LET useLLM == loc.apiKey # <<>> /\ loc.provider # <<>>
           keywords == IF useLLM THEN extractKeywordsUsingLLM(inDiff, reply)
                       ELSE extractKeywordsFromDiff(inDiff)
           s == IF useLLM THEN called(sel, "llm keywords", <<>>) ELSE sel
           m == matchOpenIssues(sel.openIssues, inDiff, keywords)
       IN IF m.fallback
          THEN /\ sel' = [s EXCEPT !.keywords = keywords, !.issues = m.issues]
               /\ pc' = "rel_fallback"
          ELSE sel' = relatedReturn(s, m.issues) /\ pc' = "sel_related"
  /\ UNCHANGED selFrame

\* getRelatedIssues, lines 705-728: the fallback keyword search. What a
\* successful reply parses to is returned as it is.
Rel_Fallback ==
  /\ pc = "rel_fallback"
  /\ \E r \in ListReplies :
       LET s == called(sel, "gh issue list --limit 5 --search",
                       searchQueryOf(sel.keywords))
       IN sel' = relatedReturn(s, IF r \in Failures THEN s.issues ELSE r)
  /\ pc' = "sel_related"
  /\ UNCHANGED selFrame

searchesAlways(relatedIssues) == TRUE

\* Whether searchAndSelectIssue goes on to the keyword search (line 77).
noneRelated(relatedIssues) == Len(relatedIssues) = 0

\* allIssues = [...allIssues, ...scoredIssues] (line 106)
withScored(allIssues, scoredIssues) == allIssues \o scoredIssues

\* searchAndSelectIssue, lines 73-81 and 118-122. Spreading a value that is
\* not iterable throws, and so does displayIssuesTable on a null issue
\* (its fallback display throws again); neither is inside a try.
Sel_Related ==
  /\ pc = "sel_related"
  /\ LET v == sel.relatedIssues
         keywords == extractKeywordsFromDiff(inDiff)
     IN IF v.kind \in {"null", "object", "arrayOfNull"}
        THEN sel' = sel /\ pc' = "sel_raised"
        ELSE IF noneRelated(v.items)
        THEN /\ sel' = [sel EXCEPT !.allIssues = v.items,
                                   !.keywords = keywords, !.fuzzy = TRUE]
             /\ pc' = IF Len(keywords) > 0 THEN "sel_search"
                      ELSE "sel_prompt"
        ELSE /\ sel' = [called(sel, "displayIssuesTable", <<>>)
                          EXCEPT !.allIssues = v.items]
             /\ pc' = "sel_prompt"
  /\ UNCHANGED selFrame

\* searchAndSelectIssue, lines 82-116: the keyword search; all of it is
\* inside one try.
Sel_Search ==
  /\ pc = "sel_search"
  /\ \E r \in ListReplies :
       LET s == called(sel, "gh issue list --limit 15 --search",
                       searchQueryOf(sel.keywords))
           scoredIssues ==
             IF r.kind = "array" /\ Len(r.items) > 0
             THEN fuzzyMatchIssues(r.items, inDiff, sel.keywords)
             ELSE <<>>
       IN IF Len(scoredIssues) > 0
          THEN sel' = [called(s, "displayIssuesTable", <<>>)
                         EXCEPT !.allIssues =
                                  withScored(sel.allIssues, scoredIssues)]
          ELSE sel' = s
  /\ pc' = "sel_prompt"
  /\ UNCHANGED selFrame

noPosition(selectedIndex, allIssues) == FALSE

\* selectedIndex >= 0 && selectedIndex < allIssues.length (line 131)
isListPosition(selectedIndex, allIssues) ==
  selectedIndex >= 0 /\ selectedIndex < Len(allIssues)

\* searchAndSelectIssue, lines 125-215: the prompt. A choice that is the
\* position of a listed issue selects it; "#n" and, failing that, a bare
\* number ask the tracker for the issue.
Sel_Prompt ==
  /\ pc = "sel_prompt"
  /\ \E choice \in Choices :
       LET listed == Len(sel.allIssues) > 0
           s == called(sel, IF listed THEN "prompt: select an issue"
                            ELSE "prompt: enter issue ID", choice)
           n == parseInt(choice)
           hash == startsWith(choice, <<"#">>)
           m == IF hash THEN parseInt(Tail(choice)) ELSE <<>>
           view(k) == /\ sel' = [s EXCEPT !.issueNumber = k]
                      /\ pc' = "sel_view"
           none == /\ sel' = selectReturn(s, JsNull)
                   /\ pc' = "sel_returned"
       IN IF listed
          THEN IF choice = <<>> THEN none
               ELSE IF n # <<>> /\ isListPosition(n[1] - 1, sel.allIssues)
               THEN /\ sel' = selectReturn(s, JsIssue(sel.allIssues[n[1]]))
                    /\ pc' = "sel_returned"
               ELSE IF hash
               THEN IF m # <<>> /\ m[1] > 0 THEN view(m[1]) ELSE none
               ELSE IF allDigits(choice) THEN view(n[1])
               ELSE none
          ELSE IF choice # <<>> /\ (hash \/ allDigits(choice))
          THEN LET k == IF hash THEN m ELSE n
               IN IF k # <<>> /\ k[1] > 0 THEN view(k[1]) ELSE none
          ELSE none
  /\ UNCHANGED selFrame

\* searchAndSelectIssue, lines 138-156, 164-182, 194-212 and 217-223:
\* gh issue view, inside a try, and the return.
Sel_View ==
  /\ pc = "sel_view"
  /\ \E r \in ViewReplies(sel.issueNumber) :
       LET s == called(sel, "gh issue view", decimal(sel.issueNumber))
       IN sel' = selectReturn(s, IF r \in Failures THEN JsNull ELSE r)
  /\ pc' = "sel_returned"
  /\ UNCHANGED selFrame

---------------------------------------------------------------------------
\* getCommitMessage (ai/getCommitMessage.ts): the post-processing.

\* content.split('\n').filter(line => line.trim() !== '')
nonBlankLines(content) ==
  SelectSeq(splitOn(content, {"\n"}), LAMBDA line : trim(line) # <<>>)

breakingLinesOnly(rest) ==
  [bodyLines |->
     \* "BREAKING CHANGE:"
     SelectSeq(rest, LAMBDA line : ~startsWith(line, <<"B", "R", "E", "A",
         "K", "I", "N", "G", " ", "C", "H", "A", "N", "G", "E", ":">>)),
   breakingChanges |->
     \* "BREAKING CHANGE:"
     SelectSeq(rest, LAMBDA line : startsWith(line, <<"B", "R", "E", "A",
         "K", "I", "N", "G", " ", "C", "H", "A", "N", "G", "E", ":">>))]

\* The lines after the header: those before the first BREAKING CHANGE:
\* line are the body, that line and the rest are the breaking changes.
bodyAndBreaking(rest) ==
  LET marks == {i \in DOMAIN rest :
                  \* "BREAKING CHANGE:"
                  startsWith(rest[i], <<"B", "R", "E", "A", "K", "I", "N",
                      "G", " ", "C", "H", "A", "N", "G", "E", ":">>)}
      first == IF marks = {} THEN Len(rest) + 1
               ELSE CHOOSE i \in marks : \A k \in marks : i <= k
  IN [bodyLines |-> SubSeq(rest, 1, first - 1),
      breakingChanges |-> SubSeq(rest, first, Len(rest))]

\* The post-processing of the first revision of getCommitMessage: it has
\* no test for an empty response and formats a header that is undefined.
postProcessUntested(content) ==
  LET lines == nonBlankLines(content)
      \* "undefined"
      headerLine == IF lines = <<>> THEN <<"u", "n", "d", "e", "f", "i", "n",
          "e", "d">> ELSE lines[1]
      parts == bodyAndBreaking(IF lines = <<>> THEN <<>> ELSE Tail(lines))
  IN [ok |-> TRUE,
      message |-> headerLine \o <<"\n", "\n">>
                    \o join(parts.bodyLines, <<"\n">>) \o <<"\n", "\n">>
                    \o join(parts.breakingChanges, <<"\n">>)]

\* Lines 158-190: ok is FALSE where "Received empty response from LLM" is
\* thrown.
postProcess(content) ==
  LET lines == nonBlankLines(content)
      parts == bodyAndBreaking(Tail(lines))
      message ==
        lines[1]
          \o (IF Len(parts.bodyLines) > 0
              THEN <<"\n", "\n">> \o join(parts.bodyLines, <<"\n">>)
              ELSE <<>>)
          \o (IF Len(parts.breakingChanges) > 0
              THEN <<"\n", "\n">> \o join(parts.breakingChanges, <<"\n">>)
              ELSE <<>>)
  IN IF Len(lines) = 0 THEN [ok |-> FALSE, message |-> <<>>]
     ELSE [ok |-> TRUE, message |-> trim(message)]

\* The budgets of the diff in the prompt (lines 127 and 135).
OpenAIBudget == 10000

DefaultBudget == 15000

\* "anthropic"
anthropic == <<"a", "n", "t", "h", "r", "o", "p", "i", "c">>

\* "openai"
openai == <<"o", "p", "e", "n", "a", "i">>

\* "ollama"
ollama == <<"o", "l", "l", "a", "m", "a">>

\* Object.values(LLMProvider)
LLMProvider == <<anthropic, openai, ollama>>

\* The diff the prompt carries (lines 122-138).
promptDiffOf(diff, provider) ==
  LET budget == IF provider = openai THEN OpenAIBudget ELSE DefaultBudget
  IN IF Len(diff) > budget THEN truncateLongDiff(diff, budget) ELSE diff

\* getCommitMessage after the call of the model: ok is FALSE where it
\* throws (the model's error is thrown again, an empty response is an
\* error).
getCommitMessage(reply) ==
  IF reply.ok THEN postProcess(createMessage(reply))
  ELSE [ok |-> FALSE, message |-> <<>>]

---------------------------------------------------------------------------
\* main (main.ts).

\* "conventional"
conventional == <<"c", "o", "n", "v", "e", "n", "t", "i", "o", "n", "a", "l">>

\* "kernel"
kernel == <<"k", "e", "r", "n", "e", "l">>

\* "repo"
repoFormat == <<"r", "e", "p", "o">>

\* "custom"
custom == <<"c", "u", "s", "t", "o", "m">>

\* "issue"
issueReference == <<"i", "s", "s", "u", "e">>

\* Object.values(CommitFormat)
CommitFormat ==
  <<conventional, <<"s", "e", "m", "a", "n", "t", "i", "c">>, <<"a", "n",
      "g", "u", "l", "a", "r">>, kernel, repoFormat, custom,
    issueReference>>

\* Object.values(CommitFormat).find(f => f.startsWith(input.toLowerCase()))
\*   || CommitFormat.CONVENTIONAL
formatOf(input) ==
  LET hits == {i \in DOMAIN CommitFormat :
                 startsWith(CommitFormat[i], toLowerCase(input))}
  IN IF hits = {} THEN conventional
     ELSE CommitFormat[CHOOSE i \in hits : \A k \in hits : i <= k]

\* The command line as parseFlags returns it: the flags in given are true,
\* --provider and --format have the values provider and format (empty
\* where the flag is not given).
flagsOf(given, provider, format) ==
  [help |-> "help" \in given, listAuthors |-> "list-authors" \in given,
   listModels |-> "list-models" \in given,
   showDefaults |-> "show-defaults" \in given,
   setDefaultProvider |-> "set-default-provider" \in given,
   setDefaultModel |-> "set-default-model" \in given,
   model |-> "model" \in given, baseUrl |-> "base-url" \in given,
   resetFormat |-> "reset-format" \in given, learn |-> "learn" \in given,
   author |-> "author" \in given, issue |-> "issue" \in given,
   provider |-> provider, format |-> format]

\* "bogus"
bogus == <<"b", "o", "g", "u", "s">>

CommandLines ==
  {flagsOf({}, <<>>, <<>>),
   flagsOf({"help"}, <<>>, <<>>),
   flagsOf({"help", "issue"}, <<>>, <<>>),
   flagsOf({"list-authors"}, <<>>, <<>>),
   flagsOf({"list-models"}, <<>>, <<>>),
   flagsOf({"list-models"}, bogus, <<>>),
   flagsOf({"show-defaults"}, <<>>, <<>>),
   flagsOf({}, bogus, <<>>),
   \* "OpenAI"
   flagsOf({}, <<"O", "p", "e", "n", "A", "I">>, <<>>),
   flagsOf({"base-url"}, ollama, <<>>),
   flagsOf({"set-default-provider"}, <<>>, <<>>),
   flagsOf({"set-default-provider"}, openai, <<>>),
   flagsOf({"set-default-model", "model"}, <<>>, <<>>),
   flagsOf({"model"}, <<>>, <<>>),
   flagsOf({"reset-format"}, <<>>, <<>>),
   flagsOf({}, <<>>, issueReference),
   flagsOf({}, <<>>, <<"K">>),
   flagsOf({}, <<>>, <<"z", "z", "z">>),
   flagsOf({"learn"}, <<>>, <<>>),
   flagsOf({"learn", "author"}, <<>>, <<>>),
   flagsOf({"learn"}, <<>>, issueReference),
   flagsOf({"issue"}, <<>>, <<>>),
   flagsOf({"issue", "learn"}, <<>>, <<>>),
   flagsOf({"issue"}, <<>>, issueReference),
   flagsOf({"issue"}, ollama, <<>>)}

\* What the configuration directory stores: nothing; an API key; or the
\* Ollama provider with its base URL and the issue format as the default.
Configs ==
  {[provider |-> <<>>, apiKey |-> FALSE, baseUrl |-> FALSE,
    format |-> <<>>],
   [provider |-> <<>>, apiKey |-> TRUE, baseUrl |-> FALSE, format |-> <<>>],
   [provider |-> ollama, apiKey |-> FALSE, baseUrl |-> TRUE,
    format |-> issueReference]}

diffWithReference ==
  \* "+const apiClient = new AuthProvider(config); // fixes #42\n"
  <<"+", "c", "o", "n", "s", "t", " ", "a", "p", "i", "C", "l", "i", "e",
      "n", "t", " ", "=", " ", "n", "e", "w", " ", "A", "u", "t", "h", "P",
      "r", "o", "v", "i", "d", "e", "r", "(", "c", "o", "n", "f", "i", "g",
      ")", ";", " ", "/", "/", " ", "f", "i", "x", "e", "s", " ", "#", "4",
      "2", "\n">>

\* "+see #42, #7 and #42\n"
diffReferencesOnly == <<"+", "s", "e", "e", " ", "#", "4", "2", ",", " ",
    "#", "7", " ", "a", "n", "d", " ", "#", "4", "2", "\n">>

\* A removed line that names config; the added line is blank.
\* "-load(config);\n+  \n"
diffRemovedConfig == <<"-", "l", "o", "a", "d", "(", "c", "o", "n", "f", "i",
    "g", ")", ";", "\n", "+", " ", " ", "\n">>

\* What git diff --staged prints.
StagedDiffs ==
  {diffWithReference, diffReferencesOnly, diffAuthProvider, diffBlank,
   diffRemovedConfig}

\* What the model answers when asked for a commit message.
MessageReplies ==
  {LLMError,
   LLMText(<<>>),
   \* " \n \n"
   LLMText(<<" ", "\n", " ", "\n">>),
   \* "feat: add x\n"
   LLMText(<<"f", "e", "a", "t", ":", " ", "a", "d", "d", " ", "x", "\n">>),
   \* "feat: add x\n\n- one\nBREAKING CHANGE: y\n- two"
   LLMText(<<"f", "e", "a", "t", ":", " ", "a", "d", "d", " ", "x", "\n",
       "\n", "-", " ", "o", "n", "e", "\n", "B", "R", "E", "A", "K", "I",
       "N", "G", " ", "C", "H", "A", "N", "G", "E", ":", " ", "y", "\n", "-",
       " ", "t", "w", "o">>)}

\* What the user answers to (a)ccept, (e)dit, (r)eject, (n)ew message?
Answers == {<<>>, <<"A">>, <<"e">>, <<"r">>, <<"n">>}

\* What the user leaves in the editor.
Edits(message) == {<<>>, <<" ", "\n">>, message \o <<"\n", "\n", "e", "d",
    "i", "t", "e", "d", "\n">>}

apiKeyValue == <<"k", "e", "y">>

\* The locals of main at its start.
LocStart ==
  [provider |-> <<>>, apiKey |-> <<>>, selectedFormat |-> <<>>,
   selectedIssue |-> JsNull, commitMessage |-> <<>>]

said(cmd) == Append(io, Call(cmd, <<>>))

mainFrame ==
  <<inIssues, inKeywords, inMaxLength, result, again, flags, config,
    stagedFiles>>

\* main, lines 268-349: the flags that end the run at once, and the
\* provider.
Main_Start ==
  /\ pc = "main"
  /\ \E out \in {"ok", "exit"} :
       LET provider == IF flags.provider # <<>>
                       THEN toLowerCase(flags.provider)
                       ELSE IF config.provider # <<>> THEN config.provider
                       ELSE anthropic
           ends(cmd) == io' = said(cmd) /\ pc' = "exit" /\ loc' = loc
       IN IF flags.help THEN ends("displayHelp")
          ELSE IF flags.listAuthors
          THEN /\ io' = said("git shortlog")
               /\ pc' = IF out = "ok" THEN "exit" ELSE "rejected"
               /\ loc' = loc
          ELSE IF flags.listModels
          THEN IF flags.provider # <<>>
                    /\ ~arrayIncludes(LLMProvider,
                        toLowerCase(flags.provider))
               THEN ends("error: invalid provider")
               ELSE ends("displayAvailableModels")
          ELSE IF flags.showDefaults THEN ends("show defaults")
          ELSE IF ~arrayIncludes(LLMProvider, provider)
          THEN ends("error: invalid provider")
          ELSE IF flags.setDefaultProvider /\ flags.provider # <<>>
          THEN ends("storeLLMProvider")
          ELSE IF flags.setDefaultModel /\ flags.model
          THEN ends("storeModelForProvider")
          ELSE /\ loc' = [loc EXCEPT !.provider = provider]
               /\ io' = io
               /\ pc' = "apikey"
  /\ UNCHANGED <<inDiff, origin, sel, commits, generation, mainFrame>>

\* main, lines 351-366: the API key, stored or asked for.
Main_ApiKey ==
  /\ pc = "apikey"
  /\ \E entered \in BOOLEAN :
       IF config.apiKey
       THEN /\ loc' = [loc EXCEPT !.apiKey = apiKeyValue]
            /\ io' = io
            /\ pc' = "format"
       ELSE IF loc.provider # ollama
       THEN IF entered
            THEN /\ loc' = [loc EXCEPT !.apiKey = apiKeyValue]
                 /\ io' = io \o <<Call("prompt: API key", apiKeyValue),
                                  Call("prompt: store the API key", <<>>)>>
                 /\ pc' = "format"
            ELSE /\ loc' = loc
                 /\ io' = io \o <<Call("prompt: API key", <<>>),
                                  Call("error: API key is required", <<>>)>>
                 /\ pc' = "exit"
       ELSE /\ loc' = loc
            /\ io' = io
            /\ pc' = "format"
  /\ UNCHANGED <<inDiff, origin, sel, commits, generation, mainFrame>>

\* main, lines 368-417 and 443-451: the provider's settings, --reset-format
\* and the format.
Main_Format ==
  /\ pc = "format"
  /\ LET asked == IF /\ loc.provider = ollama
                       /\ ~config.baseUrl
                       /\ ~flags.baseUrl
                    THEN said("prompt: Ollama base URL")
                    ELSE io
         \* Deno.remove succeeds when the file default-format is there
         removed == config.format # <<>>
         selectedFormat ==
           IF flags.format # <<>> THEN formatOf(flags.format)
           ELSE IF config.format # <<>> THEN config.format
           ELSE conventional
     IN IF flags.resetFormat /\ removed
        THEN /\ io' = Append(asked, Call("Reset commit format", <<>>))
             /\ loc' = loc
             /\ pc' = "exit"
        ELSE /\ io' = asked
             /\ loc' = [loc EXCEPT !.selectedFormat = selectedFormat]
             /\ pc' = IF flags.learn THEN "learn" ELSE "staged"
  /\ UNCHANGED <<inDiff, origin, sel, commits, generation, mainFrame>>

\* main, lines 420-442: --learn. The history is read and the model is asked
\* for a style guide; a failure of either falls back to conventional.
Main_Learn ==
  /\ pc = "learn"
  /\ \E history \in {"ok", "exit"},
        \* "Use the imperative."
        reply \in {LLMError, LLMText(<<"U", "s", "e", " ", "t", "h", "e",
            " ", "i", "m", "p", "e", "r", "a", "t", "i", "v", "e", ".">>)} :
       LET read == said("git log")
           learned == history = "ok" /\ reply.ok
       IN /\ io' = IF history # "ok" THEN read
                   ELSE IF ~reply.ok
                   THEN Append(read, Call("llm commit style", <<>>))
                   ELSE read \o <<Call("llm commit style", <<>>),
                                  Call("storeCommitStyle", <<>>),
                                  Call("storeDefaultFormat", <<>>)>>
          /\ loc' = [loc EXCEPT !.selectedFormat =
                       IF ~learned THEN conventional
                       ELSE IF flags.author THEN custom
                       ELSE repoFormat]
  /\ pc' = "staged"
  /\ UNCHANGED <<inDiff, origin, sel, commits, generation, mainFrame>>

alwaysStaged(files) == FALSE

\* stagedFiles.length === 0 (line 455)
noStagedChanges(files) == files = 0

\* main, lines 454-458: the staged files; with none the run ends.
Main_Staged ==
  /\ pc = "staged"
  /\ \E out \in {"ok", "exit"} :
       LET read == said("git diff --name-only --staged")
       IN IF out # "ok" THEN io' = read /\ pc' = "rejected"
          ELSE IF noStagedChanges(stagedFiles)
          THEN /\ io' = Append(read, Call("error: no staged changes", <<>>))
               /\ pc' = "exit"
          ELSE io' = read /\ pc' = "diff"
  /\ UNCHANGED <<inDiff, origin, loc, sel, commits, generation, mainFrame>>

\* main, lines 465-470: the diff, and the call of searchAndSelectIssue for
\* --issue or the issue format.
Main_GetDiff ==
  /\ pc = "diff"
  /\ \E out \in {"ok", "exit"}, diff \in StagedDiffs, url \in Origins :
       LET read == said("git diff --staged")
       IN IF out # "ok"
          THEN /\ io' = read
               /\ inDiff' = inDiff
               /\ origin' = origin
               /\ pc' = "rejected"
          ELSE /\ inDiff' = diff
               /\ IF flags.issue \/ loc.selectedFormat = issueReference
                  THEN /\ io' = Append(read, Call("searchAndSelectIssue",
                                                  <<>>))
                       /\ origin' = url
                       /\ pc' = "sel_origin"
                  ELSE io' = read /\ origin' = origin /\ pc' = "generate"
  /\ UNCHANGED <<loc, sel, commits, generation, mainFrame>>

\* main, lines 470-480: the issue selected, and with --issue and no issue
\* the question whether to go on.
Main_AfterSelect ==
  /\ pc = "sel_returned"
  /\ \E answer \in {<<>>, <<"Y">>, <<"n">>} :
       LET selectedIssue == sel.selectedIssue
           asks == /\ ~truthy(selectedIssue)
                   /\ flags.issue
                   /\ loc.selectedFormat # issueReference
           asked == Append(io, Call("prompt: continue without issue",
                                    answer))
       IN /\ loc' = [loc EXCEPT !.selectedIssue = selectedIssue]
          /\ IF asks /\ toLowerCase(answer) # <<"y">>
             THEN /\ io' = Append(asked, Call("Commit aborted", <<>>))
                  /\ pc' = "exit"
             ELSE io' = (IF asks THEN asked ELSE io) /\ pc' = "generate"
  /\ sel' = SelStart
  /\ origin' = <<>>
  /\ UNCHANGED <<inDiff, commits, generation, mainFrame>>

\* main, lines 482-507 and 533-535, with getCommitMessage: the author for
\* the kernel format, the call of the model and the post-processing. What
\* getCommitMessage throws is caught by main, which reports it and ends.
Main_Generate ==
  /\ pc = "generate"
  /\ \E author \in {"ok", "throw"}, reply \in MessageReplies :
       LET isKernel == loc.selectedFormat = kernel
           configured ==
             IF isKernel
             THEN io \o <<Call("git config user.name", <<>>),
                          Call("git config user.email", <<>>)>>
             ELSE io
           promptDiff == promptDiffOf(inDiff, loc.provider)
           asked == Append(configured, Call("llm commit message",
                                            decimal(Len(promptDiff))))
           m == getCommitMessage(reply)
           failed == Call("error: failed to generate commit message", <<>>)
       IN IF isKernel /\ author = "throw"
          THEN /\ io' = Append(configured, failed)
               /\ generation' = "error"
               /\ loc' = loc
               /\ pc' = "exit"
          ELSE /\ generation' =
                    IF ~reply.ok THEN "error"
                    ELSE IF nonBlankLines(reply.content) = <<>> THEN "blank"
                    ELSE "text"
               /\ IF m.ok
                  THEN /\ io' = Append(asked, Call("displayCommitMessage",
                                                   <<>>))
                       /\ loc' = [loc EXCEPT !.commitMessage = m.message]
                       /\ pc' = "answer"
                  ELSE /\ io' = Append(asked, failed)
                       /\ loc' = loc
                       /\ pc' = "exit"
  /\ UNCHANGED <<inDiff, origin, sel, commits, mainFrame>>

\* commitChanges, within the try of main: git commit is run; its failure is
\* thrown and reported by the catch of main.
committed(log, message, out) ==
  log \o <<Call("git commit -m", message),
           Call(IF out = "ok" THEN "Commit successful"
                ELSE "error: failed to generate commit message", <<>>)>>

promptAgain == "answer"

\* Where main is after commitChanges has returned: break (line 515) leads
\* to the end of main.
afterCommit == "exit"

\* main, lines 509-532: the answer. "n" starts main again, whose records
\* begin afresh.
Main_Answer ==
  /\ pc = "answer"
  /\ \E answer \in Answers, out \in {"ok", "exit"} :
       LET asked == Append(io, Call("prompt: accept, edit, reject, new",
                                    answer))
           a == toLowerCase(answer)
           stays == /\ inDiff' = inDiff
                    /\ loc' = loc
                    /\ generation' = generation
       IN IF a = <<"a">>
          THEN /\ io' = committed(asked, loc.commitMessage, out)
               /\ commits' = commits + 1
               /\ pc' = afterCommit
               /\ stays
          ELSE IF a = <<"e">>
          THEN io' = asked /\ commits' = commits /\ pc' = "edit" /\ stays
          ELSE IF a = <<"n">>
          THEN /\ io' = <<Call("Generating new message...", answer)>>
               /\ inDiff' = <<>>
               /\ loc' = LocStart
               /\ generation' = "none"
               /\ commits' = commits
               /\ pc' = "main"
          ELSE /\ io' = Append(asked, Call("Commit aborted", <<>>))
               /\ commits' = commits
               /\ pc' = "exit"
               /\ stays
  /\ UNCHANGED <<origin, sel, mainFrame>>

\* editInEditor: the text left in the editor, trimmed.
editInEditor(edited) == trim(edited)

anyText(editedMessage) == TRUE

\* editedMessage.trim() !== "" (line 518)
notBlank(editedMessage) == trim(editedMessage) # <<>>

\* main, lines 516-524, with editInEditor: the message as edited is
\* committed unless it is blank.
Main_Edit ==
  /\ pc = "edit"
  /\ \E vim \in {"ok", "throw"}, edited \in Edits(loc.commitMessage),
        out \in {"ok", "exit"} :
       LET editedMessage == editInEditor(edited)
       IN IF vim = "throw"
          THEN /\ io' = io \o <<Call("vim", <<>>), Call(
                          "error: failed to generate commit message", <<>>)>>
               /\ commits' = commits
          ELSE LET opened == Append(io, Call("vim", edited))
          IN IF notBlank(editedMessage)
          THEN /\ io' = committed(opened, editedMessage, out)
               /\ commits' = commits + 1
          ELSE /\ io' = Append(opened, Call("Commit aborted", <<>>))
               /\ commits' = commits
  /\ pc' = "exit"
  /\ UNCHANGED <<inDiff, origin, loc, sel, generation, mainFrame>>

Init ==
  /\ pc = "main"
  /\ inDiff = <<>>
  /\ inIssues = <<>>
  /\ inKeywords = <<>>
  /\ inMaxLength = 0
  /\ result = <<>>
  /\ again = <<>>
  /\ flags \in CommandLines
  /\ config \in Configs
  /\ stagedFiles \in 0..1
  /\ origin = <<>>
  /\ loc = LocStart
  /\ sel = SelStart
  /\ io = <<>>
  /\ commits = 0
  /\ generation = "none"

Next ==
  \/ Main_Start
  \/ Main_ApiKey
  \/ Main_Format
  \/ Main_Learn
  \/ Main_Staged
  \/ Main_GetDiff
  \/ Sel_CheckOrigin
  \/ Sel_RepoInfo
  \/ Rel_GhVersion
  \/ Rel_CheckOrigin
  \/ Rel_RepoInfo
  \/ Rel_Direct
  \/ Rel_Open
  \/ Rel_Keywords
  \/ Rel_Fallback
  \/ Sel_Related
  \/ Sel_Search
  \/ Sel_Prompt
  \/ Sel_View
  \/ Main_AfterSelect
  \/ Main_Generate
  \/ Main_Answer
  \/ Main_Edit

Spec == Init /\ [][Next]_vars

---------------------------------------------------------------------------
\* Properties of the issue selection and of the commit flow, under Spec.

hasDuplicates(list) ==
  \E i, j \in DOMAIN list : i # j /\ list[i].number = list[j].number

didCall(log, cmds) == \E i \in DOMAIN log : log[i].cmd \in cmds

originCheck == Call("git remote get-url origin", <<>>)

\* C4: the candidate list that searchAndSelectIssue presents holds no issue
\* number twice, whatever the tracker's replies held.
C4_PresentedOnce == pc = "sel_prompt" => ~hasDuplicates(sel.allIssues)

\* C6: while the origin is not a GitHub remote, searchAndSelectIssue is at
\* its origin check or has returned; it returns no issue, and its only
\* call is the origin check: no tracker call, language-model call or prompt.
C6_NoTrackerNoIO ==
  (pc \in {"sel_origin", "sel_repo", "rel_gh", "rel_origin", "rel_repo",
           "rel_direct", "rel_open", "rel_keywords", "rel_fallback",
           "sel_related", "sel_search", "sel_prompt", "sel_view",
           "sel_returned", "sel_raised"}
     \* "github.com"
     /\ ~includes(origin, <<"g", "i", "t", "h", "u", "b", ".", "c", "o",
         "m">>))
  => /\ pc \in {"sel_origin", "sel_returned"}
     /\ sel.calls \in {<<>>, <<originCheck>>}
     /\ pc = "sel_returned"
          => sel.calls = <<originCheck>> /\ sel.selectedIssue = JsNull

C6_Witness ==
  /\ pc = "sel_returned"
  \* "https://gitlab.com/o/r.git\n"
  /\ origin = <<"h", "t", "t", "p", "s", ":", "/", "/", "g", "i", "t", "l",
      "a", "b", ".", "c", "o", "m", "/", "o", "/", "r", ".", "g", "i", "t",
      "\n">>
  /\ sel.calls = <<originCheck>>
  /\ sel.selectedIssue = JsNull

\* C7 as stated: where the diff holds a #<number> token, the fuzzy path
\* (open-issue listing, keyword extraction, scoring) runs only after a
\* direct fetch that failed.
C7_FuzzyOnlyAfterFailure ==
  (uniqueIssuesOf(inDiff) # <<>> /\ sel.fuzzy) => sel.direct \in Failures

\* C7 as the code has it: after a direct fetch that returned issues no step
\* of the fuzzy path runs and the candidates presented are the fetched
\* ones; the fuzzy path runs after a reference in the diff only where the
\* direct fetch was not made, failed, or returned no issue.
C7_DirectBypassesFuzzy ==
  /\ (sel.direct.kind = "array" /\ Len(sel.direct.items) > 0)
       => /\ ~sel.fuzzy
          /\ ~didCall(sel.calls, {"gh issue list --limit 30 --state open",
                                  "gh issue list --limit 15 --search",
                                  "gh issue list --limit 5 --search",
                                  "llm keywords"})
          /\ pc = "sel_prompt" => sel.allIssues = sel.direct.items
  /\ (uniqueIssuesOf(inDiff) # <<>> /\ sel.fuzzy)
       => sel.direct \in Failures \cup {NoReply, JsNull, JsArray(<<>>)}
  /\ (inDiff = diffReferencesOnly /\ sel.direct # NoReply)
       => \E i \in DOMAIN sel.calls :
            sel.calls[i] = Call("gh issue list --limit 100 --search",
                                \* "#42 #7"
                                <<"#", "4", "2", " ", "#", "7">>)

C7_Witness ==
  /\ pc = "sel_prompt"
  /\ inDiff = diffReferencesOnly
  /\ sel.direct = JsArray(<<poolIssue(42), poolIssue(7)>>)
  /\ sel.allIssues = <<poolIssue(42), poolIssue(7)>>
  /\ ~sel.fuzzy

\* C8: searchAndSelectIssue never raises to its caller.
C8_NeverRaises == pc # "sel_raised"

\* C9 as stated: once the lack of staged changes is reported, no call to
\* the language model or to the tracker has been made.
C9_NoNetworkCall ==
  didCall(io, {"error: no staged changes"})
    => /\ ~didCall(io, {"llm commit style", "llm commit message"})
       /\ sel.calls = <<>>

\* C9 as the code has it: with no staged changes the run never gets to the
\* diff, the issue selection or the generation, so it makes no tracker call
\* and no commit-message call; the one call to the language model it can
\* make before the report is the style analysis of --learn.
C9_OnlyStyleAnalysis ==
  stagedFiles = 0
    => /\ pc \in {"main", "apikey", "format", "learn", "staged", "exit",
                  "rejected"}
       /\ sel = SelStart
       /\ commits = 0
       /\ ~didCall(io, {"git diff --staged", "searchAndSelectIssue",
                        "llm commit message", "git commit -m"})
       /\ didCall(io, {"llm commit style"}) => flags.learn
       /\ didCall(io, {"error: no staged changes"}) => pc = "exit"

C9_Witness ==
  /\ stagedFiles = 0
  /\ pc = "exit"
  /\ flags.learn
  /\ didCall(io, {"llm commit style"})
  /\ io[Len(io)] = Call("error: no staged changes", <<>>)

\* C10: after a generation that failed (the language model's call threw,
\* or its response had no non-blank line) the error is reported, the run
\* has ended, and git commit has not been run.
C10_NoCommitAfterFailure ==
  generation \in {"error", "blank"}
    => /\ pc = "exit"
       /\ commits = 0
       /\ ~didCall(io, {"git commit -m", "prompt: accept, edit, reject, new"})
       /\ io[Len(io)] = Call("error: failed to generate commit message", <<>>)

C10_Witness ==
  /\ generation = "blank"
  /\ pc = "exit"
  /\ commits = 0
  /\ didCall(io, {"llm commit message"})

---------------------------------------------------------------------------
\* Properties of the answer to the proposed message, under Spec.

answerPrompt == "prompt: accept, edit, reject, new"

commitsIn(log) == {i \in DOMAIN log : log[i].cmd = "git commit -m"}

\* The commit at position i of the log follows the answer a and carries the
\* proposed message.
acceptedAt(log, i) ==
  /\ i > 1
  /\ log[i - 1].cmd = answerPrompt
  /\ toLowerCase(log[i - 1].arg) = <<"a">>
  /\ log[i].arg = loc.commitMessage

\* The commit at position i of the log follows the answer e and the editor,
\* and carries what was left in the editor, trimmed, which is not empty.
editedAt(log, i) ==
  /\ i > 2
  /\ log[i - 2].cmd = answerPrompt
  /\ toLowerCase(log[i - 2].arg) = <<"e">>
  /\ log[i - 1].cmd = "vim"
  /\ log[i].arg = trim(log[i - 1].arg)
  /\ log[i].arg # <<>>

\* C11: git commit is run only after the answer a, with the proposed
\* message, or after the answer e, with the edited message where that is
\* not empty; after r or any other answer no commit is run.
C11_CommitOnlyAccepted ==
  /\ \A i \in commitsIn(io) : acceptedAt(io, i) \/ editedAt(io, i)
  /\ commits = Cardinality(commitsIn(io))
  /\ \A i \in DOMAIN io :
       (io[i].cmd = answerPrompt
          /\ toLowerCase(io[i].arg) \notin {<<"a">>, <<"e">>})
       => commits = 0

C11_Witness ==
  /\ pc = "exit"
  /\ commits = 1
  \* "feat: add x"
  /\ loc.commitMessage = <<"f", "e", "a", "t", ":", " ", "a", "d", "d", " ",
      "x">>
  /\ \E i \in commitsIn(io) :
       \* "feat: add x\n\nedited"
       editedAt(io, i) /\ io[i].arg = <<"f", "e", "a", "t", ":", " ", "a",
           "d", "d", " ", "x", "\n", "\n", "e", "d", "i", "t", "e", "d">>

---------------------------------------------------------------------------
\* The two keyword extractors called on their own (utils.ts).

\* The stop words of the earlier extractKeywordsFromDiff (lines 21-29).
commonWords ==
  {<<"t", "h", "e">>, <<"a", "n", "d">>, <<"f", "o", "r">>, <<"w", "i", "t",
      "h">>, <<"t", "h", "i", "s">>, <<"t", "h", "a", "t">>, <<"f", "r", "o",
      "m">>, <<"a", "r", "e">>,
   <<"w", "a", "s">>, <<"w", "e", "r", "e">>, <<"w", "i", "l", "l">>, <<"w",
       "o", "u", "l", "d">>, <<"c", "o", "u", "l", "d">>, <<"s", "h", "o",
       "u", "l", "d">>, <<"h", "a", "v", "e">>,
   <<"h", "a", "s">>, <<"h", "a", "d">>, <<"n", "o", "t">>, <<"b", "u",
       "t">>, <<"o", "r">>, <<"i", "f">>, <<"t", "h", "e", "n">>, <<"e", "l",
       "s", "e">>,
   <<"w", "h", "e", "n">>, <<"w", "h", "i", "l", "e">>, <<"d", "o">>, <<"d",
       "o", "e", "s">>, <<"d", "i", "d">>, <<"d", "o", "n", "e">>, <<"i",
       "n">>, <<"o", "n">>,
   <<"a", "t">>, <<"b", "y">>, <<"t", "o">>, <<"o", "f">>, <<"a">>, <<"a",
       "n">>, <<"i", "s">>, <<"i", "t">>, <<"a", "s">>, <<"b", "e">>,
   <<"c", "a", "n">>, <<"m", "a", "y">>, <<"m", "i", "g", "h", "t">>, <<"m",
       "u", "s", "t">>, <<"s", "h", "a", "l", "l">>, <<"w", "h", "i", "c",
       "h">>, <<"w", "h", "o">>,
   <<"w", "h", "o", "m">>, <<"w", "h", "o", "s", "e">>, <<"w", "h", "a",
       "t">>, <<"w", "h", "e", "r", "e">>, <<"w", "h", "y">>, <<"h", "o",
       "w">>, <<"a", "l", "l">>, <<"a", "n", "y">>,
   <<"s", "o", "m", "e">>, <<"n", "o">>, <<"n", "o", "n", "e">>, <<"o", "n",
       "e">>, <<"t", "w", "o">>, <<"t", "h", "r", "e", "e">>, <<"f", "o",
       "u", "r">>, <<"f", "i", "v", "e">>,
   <<"s", "i", "x">>, <<"s", "e", "v", "e", "n">>, <<"e", "i", "g", "h",
       "t">>, <<"n", "i", "n", "e">>, <<"t", "e", "n">>}

MaxWords == 2

\* The words of the added line of a diff.
KeywordWords ==
  {<<"t", "h", "i", "s">>, <<"w", "i", "t", "h">>, <<"g", "p", "t">>, <<"f",
      "i", "x">>, <<"t", "o", "k", "e", "n", "L", "i", "m", "i", "t">>,
      <<"a", "u", "t", "h", "_", "p", "r", "o", "v", "i", "d", "e", "r">>,
   <<"1", "2", "3", "4">>, <<"-", "-", "v", "e", "r", "b", "o", "s", "e">>,
       <<"c", "o", "m", "m", "i", "t">>}

RECURSIVE wordLists(_)
wordLists(n) ==
  IF n = 0 THEN {<<>>}
  ELSE LET shorter == wordLists(n - 1)
       IN shorter \cup {Append(l, w) : l \in shorter, w \in KeywordWords}

\* A diff of one file whose one added line holds the words.
diffOfWords(words) ==
  \* "diff --git a/x b/x\n+++ b/x\n-old line\n+"
  <<"d", "i", "f", "f", " ", "-", "-", "g", "i", "t", " ", "a", "/", "x",
      " ", "b", "/", "x", "\n", "+", "+", "+", " ", "b", "/", "x", "\n", "-",
      "o", "l", "d", " ", "l", "i", "n", "e", "\n", "+">> \o join(words,
      <<" ">>)
    \o <<"\n">>

\* n words that differ in their last letter: worda, wordb, ...
\* "word"
manyWords(n) == [i \in 1..n |-> <<"w", "o", "r", "d">> \o <<Lower[i]>>]

\* The diffs of up to MaxWords words, and one of more words than the
\* extractors return, the first of them twice.
KeywordDiffs ==
  {diffOfWords(l) : l \in wordLists(MaxWords)}
    \* "worda"
    \cup {diffOfWords(<<<<"w", "o", "r", "d",
        "a">>>> \o manyWords(KeywordLimit + 2))}

\* The responses of the model to the keyword request.
ExtractionReplies ==
  \* "provider; tokens\nauth-flow"
  KeywordReplies \cup {LLMText(<<"p", "r", "o", "v", "i", "d", "e", "r", ";",
      " ", "t", "o", "k", "e", "n", "s", "\n", "a", "u", "t", "h", "-", "f",
      "l", "o", "w">>),
                       \* "Sorry."
                       LLMText(<<"S", "o", "r", "r", "y", ".">>),
                       \* "worda"
                       LLMText(join(<<<<"w", "o", "r", "d",
                           "a">>>> \o manyWords(KeywordLimit),
                                    <<",", " ">>))}

InitKeywords ==
  /\ pc = "kw_call"
  /\ inDiff \in KeywordDiffs
  /\ inIssues = <<>>
  /\ inKeywords = <<>>
  /\ inMaxLength = 0
  /\ result = <<>>
  /\ again = <<>>
  /\ FlowIdle

keywordFrame ==
  <<inDiff, inIssues, inKeywords, inMaxLength, again, flowVars>>

\* extractKeywordsFromDiff(diff)
Kw_Lexical ==
  /\ pc = "kw_call"
  /\ result' = extractKeywordsFromDiff(inDiff)
  /\ pc' = "kw_lexical"
  /\ UNCHANGED keywordFrame

tryFromRequest(step) == step = "request"

\* The steps of extractKeywordsUsingLLM that its try (lines 257-330)
\* encloses: all of them.
insideTry(step) == step \in {"import", "client", "request"}

\* Where a step that throws leads.
thrownAt(step) == IF insideTry(step) THEN "kw_catch" ELSE "kw_raised"

\* extractKeywordsUsingLLM, lines 257-264: the import of the client and
\* the diff of the request.
Kw_Import ==
  /\ pc = "kw_call"
  /\ \E out \in {"ok", "throw"} :
       pc' = IF out = "ok" THEN "kw_client" ELSE thrownAt("import")
  /\ UNCHANGED <<result, keywordFrame>>

\* Lines 266-270: new LangChainClient, which throws for a provider it does
\* not know.
Kw_Client ==
  /\ pc = "kw_client"
  /\ \E out \in {"ok", "throw"} :
       pc' = IF out = "ok" THEN "kw_request" ELSE thrownAt("client")
  /\ UNCHANGED <<result, keywordFrame>>

\* Lines 284-328: the request and what is made of the response. A response
\* that createMessage cannot turn into text throws as the request does.
Kw_Request ==
  /\ pc = "kw_request"
  /\ \E reply \in ExtractionReplies :
       LET keywords == keywordsOfResponse(createMessage(reply))
       IN IF reply.ok
          THEN /\ result' = keywords
               /\ pc' = IF keywords = <<>> THEN "kw_returned_none"
                        ELSE "kw_returned"
          ELSE result' = result /\ pc' = thrownAt("request")
  /\ UNCHANGED keywordFrame

\* Lines 330-334: the catch.
Kw_Catch ==
  /\ pc = "kw_catch"
  /\ result' = extractKeywordsFromDiff(inDiff)
  /\ pc' = "kw_fell_back"
  /\ UNCHANGED keywordFrame

NextKeywords ==
  Kw_Lexical \/ Kw_Import \/ Kw_Client \/ Kw_Request \/ Kw_Catch

SpecKeywords == InitKeywords /\ [][NextKeywords]_vars

inResult(k) == \E i \in DOMAIN result : result[i] = k

\* C12: every keyword that extractKeywordsFromDiff returns is longer than 3
\* characters and is not a stop word.
C12_LongAndNoStopWord ==
  pc = "kw_lexical"
    => \A i \in DOMAIN result :
         Len(result[i]) > 3 /\ result[i] \notin commonWords

---------------------------------------------------------------------------
\* The score of one issue, in the two stages of fuzzyMatchIssues.

\* "+integration\n"
diffIntegration == <<"+", "i", "n", "t", "e", "g", "r", "a", "t", "i", "o",
    "n", "\n">>

\* "+the openai integration reads config.model\n"
diffOpenAI == <<"+", "t", "h", "e", " ", "o", "p", "e", "n", "a", "i", " ",
    "i", "n", "t", "e", "g", "r", "a", "t", "i", "o", "n", " ", "r", "e",
    "a", "d", "s", " ", "c", "o", "n", "f", "i", "g", ".", "m", "o", "d",
    "e", "l", "\n">>

PointDiffs ==
  {diffAuthProvider, diffTokenLimit, diffBlank, diffIntegration, diffOpenAI}

PointTitles ==
  \* "OpenAI integration"
  {titleProvider, titleConfig, titleReadme, <<"O", "p", "e", "n", "A", "I",
      " ", "i", "n", "t", "e", "g", "r", "a", "t", "i", "o", "n">>}

\* "Integration with the OpenAI model"
PointBodies == {<<>>, bodyToken, <<"I", "n", "t", "e", "g", "r", "a", "t",
    "i", "o", "n", " ", "w", "i", "t", "h", " ", "t", "h", "e", " ", "O",
    "p", "e", "n", "A", "I", " ", "m", "o", "d", "e", "l">>}

PointLabels ==
  \* "LLM-provider-config"
  {<<>>, <<labelProvider>>, <<labelProvider, <<"L", "L", "M", "-", "p", "r",
      "o", "v", "i", "d", "e", "r", "-", "c", "o", "n", "f", "i", "g">>>>}

PointIssues ==
  {[number |-> 1, title |-> t, body |-> b, labels |-> l] :
     t \in PointTitles, b \in PointBodies, l \in PointLabels}

InitPoints ==
  /\ pc = "points"
  /\ inDiff \in PointDiffs
  /\ \E issue \in PointIssues : inIssues = <<issue>>
  /\ inKeywords = <<>>
  /\ inMaxLength = 0
  /\ result = <<>>
  /\ again = <<>>
  /\ FlowIdle

\* Lines 236-266: the score after the loops over the important terms.
Score_Terms ==
  /\ pc = "points"
  /\ result' = <<termScore(inIssues[1], extractImportantTerms(inDiff))>>
  /\ pc' = "terms_scored"
  /\ UNCHANGED <<inDiff, inIssues, inKeywords, inMaxLength, again, flowVars>>

\* Lines 268-283: the score after the loop over the technical terms.
Score_Technical ==
  /\ pc = "terms_scored"
  /\ again' = <<result[1] + technicalScore(inIssues[1], diffWordsOf(inDiff))>>
  /\ pc' = "points_scored"
  /\ UNCHANGED <<inDiff, inIssues, inKeywords, inMaxLength, result, flowVars>>

\* Lines 285-293: the list returned.
Score_Return ==
  /\ pc = "points_scored"
  /\ result' = fuzzyMatchIssues(inIssues, inDiff, inKeywords)
  /\ pc' = "points_returned"
  /\ UNCHANGED <<inDiff, inIssues, inKeywords, inMaxLength, again, flowVars>>

NextPoints == Score_Terms \/ Score_Technical \/ Score_Return

SpecPoints == InitPoints /\ [][NextPoints]_vars

\* "integration"
integration == <<"i", "n", "t", "e", "g", "r", "a", "t", "i", "o", "n">>

\* C14 as stated: with no important term in the diff the issue scores 0
\* and the scorer returns the empty list.
C14_NoTermsNoScore ==
  extractImportantTerms(inDiff) = {}
    => /\ pc = "points_scored" => again = <<0>>
       /\ pc = "points_returned" => result = <<>>

\* C14 as the code has it: with no important term in the diff the only
\* points left are those of the technical term "integration", 3 for the
\* title and 1 for the body, where the diff has it as a word; without that
\* word the issue scores 0 and the scorer returns the empty list.
C14_OnlyIntegrationScores ==
  extractImportantTerms(inDiff) = {}
    => LET issue == inIssues[1]
           inWords == arrayIncludes(diffWordsOf(inDiff), integration)
           expected ==
             (IF inWords /\ includes(toLowerCase(issue.title), integration)
              THEN TechTitleWeight ELSE 0)
             + (IF inWords /\ includes(toLowerCase(issue.body), integration)
                THEN TechBodyWeight ELSE 0)
       IN /\ pc = "terms_scored" => result = <<0>>
          /\ pc = "points_scored" => again = <<expected>>
          /\ pc = "points_returned"
               => /\ Len(result) = (IF expected > 0 THEN 1 ELSE 0)
                  /\ \A i \in DOMAIN result : result[i].score = expected

C14_Witness ==
  /\ pc = "points_returned"
  /\ inDiff = diffBlank
  /\ extractImportantTerms(inDiff) = {}
  /\ inIssues[1].title = titleProvider
  /\ inIssues[1].labels # <<>>
  /\ result = <<>>

termsIn(text) ==
  {t \in extractImportantTerms(inDiff) : includes(toLowerCase(text), t)}

\* C18: the points of the important terms are 10 for every term the title
\* holds, 8 for every pair of a label and a term the label holds, and 5 for
\* every term the body holds; an issue without body and labels has the
\* points of its title only.
C18_TermPoints ==
  pc = "terms_scored"
    => LET issue == inIssues[1]
           pairs == {<<i, t>> \in
                       (DOMAIN issue.labels) \X extractImportantTerms(inDiff) :
                       includes(toLowerCase(issue.labels[i]), t)}
       IN /\ result[1] = 10 * Cardinality(termsIn(issue.title))
                           + 8 * Cardinality(pairs)
                           + 5 * Cardinality(termsIn(issue.body))
          /\ (issue.body = <<>> /\ issue.labels = <<>>)
               => result[1] = 10 * Cardinality(termsIn(issue.title))

C18_Witness ==
  /\ pc = "terms_scored"
  /\ inDiff = diffAuthProvider
  /\ inIssues[1].title = titleConfig
  /\ inIssues[1].body = bodyToken
  /\ Len(inIssues[1].labels) = 2
  /\ result = <<20 + 24 + 5>>

catalogueTerms ==
  {<<"a", "p", "i">>, <<"p", "r", "o", "v", "i", "d", "e", "r">>, <<"m", "o",
      "d", "e", "l">>, <<"l", "l", "m">>, <<"l", "a", "n", "g", "u", "a",
      "g", "e", " ", "m", "o", "d", "e", "l">>, <<"a", "n", "t", "h", "r",
      "o", "p", "i", "c">>,
   <<"o", "p", "e", "n", "a", "i">>, <<"o", "l", "l", "a", "m", "a">>, <<"c",
       "l", "a", "u", "d", "e">>, <<"g", "p", "t">>, <<"c", "o", "n", "f",
       "i", "g">>, <<"i", "n", "t", "e", "g", "r", "a", "t", "i", "o", "n">>,
   <<"t", "o", "k", "e", "n">>, <<"c", "o", "m", "p", "l", "e", "t", "i",
       "o", "n">>}

---------------------------------------------------------------------------
\* Properties of the prompt of searchAndSelectIssue, under Spec.

\* The prompt has just been answered: what was typed.
answered == pc = "sel_prompt" /\ pc' # "sel_prompt"

typed == sel'.calls[Len(sel'.calls)].arg

isBareNumber(choice) == choice # <<>> /\ allDigits(choice)

isReference(choice) ==
  /\ Len(choice) > 1
  /\ Head(choice) = "#"
  /\ allDigits(Tail(choice))
  /\ toNumber(Tail(choice)) > 0

viewing(n) == pc' = "sel_view" /\ sel'.issueNumber = n

\* C15 as stated: a bare number n is handled as #n is: issue n is asked of
\* the tracker, whether or not n is a position of the list displayed.
C15_BareNumberIsReference ==
  [][(answered /\ isBareNumber(typed) /\ toNumber(typed) > 0)
       => viewing(toNumber(typed))]_vars

\* C15 as the code has it: #n asks the tracker for issue n; a bare number
\* that is a position of the list displayed selects the issue listed
\* there, without a call of the tracker; any other bare number asks the
\* tracker for that issue, except a 0 typed where no list is displayed,
\* which selects nothing. The issue the tracker returns is the selection.
C15_PositionBeforeNumber ==
  [][/\ (answered /\ isReference(typed)) => viewing(toNumber(Tail(typed)))
     /\ (answered /\ isBareNumber(typed))
          => LET n == toNumber(typed)
             IN IF n >= 1 /\ n <= Len(sel.allIssues)
                THEN /\ pc' = "sel_returned"
                     /\ sel'.selectedIssue = JsIssue(sel.allIssues[n])
                ELSE IF n > 0 \/ Len(sel.allIssues) > 0
                THEN viewing(n)
                ELSE pc' = "sel_returned" /\ sel'.selectedIssue = JsNull
     /\ pc = "sel_view"
          => /\ sel'.calls[Len(sel'.calls)]
                  = Call("gh issue view", decimal(sel.issueNumber))
             /\ sel'.selectedIssue
                  \in {JsNull, JsObject, JsIssue(poolIssue(sel.issueNumber))}
    ]_vars

C15_Witness ==
  /\ pc = "sel_returned"
  /\ \E i \in DOMAIN sel.calls :
       sel.calls[i] = Call("prompt: select an issue", <<"2">>)
  /\ ~didCall(sel.calls, {"gh issue view"})
  /\ sel.direct = JsArray(<<poolIssue(42), poolIssue(7)>>)
  /\ sel.selectedIssue = JsIssue(poolIssue(7))

---------------------------------------------------------------------------
\* The stored commit style and default format over successive invocations
\* of main. config is what the configuration directory holds: the file
\* default-format (format), the file default-style (defaultStyle) and the
\* file style-<author> of the one author named on the command line
\* (authorStyle). A style file is <<>> when missing and <<text>> when
\* there; the format file is <<>> when missing.

\* getFormatTemplate(format): the template, named by the format it belongs
\* to; every format without a case of its own gets the conventional one.
getFormatTemplate(format) ==
  IF format \in {kernel, <<"s", "e", "m", "a", "n", "t", "i", "c">>, <<"a",
      "n", "g", "u", "l", "a", "r">>, issueReference}
  THEN format
  ELSE conventional

noStoredStyle(c, f) == <<>>

\* getStoredCommitStyle(author?): the author's style file where there is
\* one, the default style file otherwise; null, which is falsy as the empty
\* text is and is written <<>> here, where there is none.
getStoredCommitStyle(c, f) ==
  IF f.author /\ c.authorStyle # <<>> THEN c.authorStyle[1]
  ELSE IF c.defaultStyle # <<>> THEN c.defaultStyle[1]
  ELSE <<>>

\* The system prompt of lines 482-500: built from the stored style guide
\* (guide) or from the template of the selected format.
systemPromptOf(selectedFormat, customStyle) ==
  IF customStyle # <<>> /\ selectedFormat \in {custom, repoFormat}
  THEN [guide |-> TRUE, text |-> customStyle]
  ELSE [guide |-> FALSE, text |-> getFormatTemplate(selectedFormat)]

\* Object.values(CommitFormat).some(f => f.startsWith(formatInput))
isKnownFormat(input) ==
  \E i \in DOMAIN CommitFormat :
    startsWith(CommitFormat[i], toLowerCase(input))

ConfigLines ==
  {flagsOf({}, <<>>, <<>>),
   flagsOf({"author"}, <<>>, <<>>),
   flagsOf({"learn"}, <<>>, <<>>),
   flagsOf({"learn", "author"}, <<>>, <<>>),
   flagsOf({"learn"}, <<>>, kernel),
   flagsOf({}, <<>>, kernel),
   flagsOf({}, <<>>, <<"S", "e", "m">>),
   flagsOf({}, <<>>, repoFormat),
   flagsOf({}, <<>>, <<"z", "z", "z">>),
   flagsOf({"reset-format"}, <<>>, <<>>)}

\* What analyzeCommitStyle returns.
StyleReplies ==
  \* "Use the imperative."
  {LLMError, LLMText(<<>>), LLMText(<<"U", "s", "e", " ", "t", "h", "e", " ",
      "i", "m", "p", "e", "r", "a", "t", "i", "v", "e", ".">>),
   \* "Use emoji."
   LLMText(<<"U", "s", "e", " ", "e", "m", "o", "j", "i", ".">>)}

ConfigLocStart == [selectedFormat |-> <<>>, styleGuide |-> <<>>]

InitConfig ==
  /\ pc = "cfg_reset"
  /\ flags \in ConfigLines
  /\ config = [format |-> <<>>, defaultStyle |-> <<>>, authorStyle |-> <<>>]
  /\ loc = ConfigLocStart
  /\ result = <<>>
  /\ inDiff = <<>>
  /\ inIssues = <<>>
  /\ inKeywords = <<>>
  /\ inMaxLength = 0
  /\ again = <<>>
  /\ stagedFiles = 0
  /\ origin = <<>>
  /\ sel = <<>>
  /\ io = <<>>
  /\ commits = 0
  /\ generation = "none"

configFrame ==
  <<inDiff, inIssues, inKeywords, inMaxLength, again, stagedFiles, origin,
    sel, io, commits, generation>>

\* main, lines 401-412: --reset-format removes the file default-format and
\* ends the run; where there is no such file the run goes on.
Cfg_Reset ==
  /\ pc = "cfg_reset"
  /\ IF flags.resetFormat /\ config.format # <<>>
     THEN /\ config' = [config EXCEPT !.format = <<>>]
          /\ pc' = "cfg_exit"
     ELSE /\ config' = config
          /\ pc' = "cfg_select"
  /\ UNCHANGED <<flags, loc, result, configFrame>>

\* main, lines 414-417: the format named by --format, else the stored
\* default format, else conventional.
Cfg_Select ==
  /\ pc = "cfg_select"
  /\ loc' = [loc EXCEPT !.selectedFormat =
               IF flags.format # <<>> THEN formatOf(flags.format)
               ELSE IF config.format # <<>> THEN config.format
               ELSE conventional]
  /\ pc' = IF flags.learn THEN "cfg_learn"
           ELSE IF flags.format # <<>> THEN "cfg_store"
           ELSE "cfg_staged"
  /\ UNCHANGED <<flags, config, result, configFrame>>

\* main, lines 420-442: --learn. The style guide is stored as the default
\* style, with --author as that author's style too, and custom or repo is
\* stored as the default format; a failure selects conventional.
Cfg_Learn ==
  /\ pc = "cfg_learn"
  /\ \E history \in {"ok", "exit"}, reply \in StyleReplies :
       IF history = "ok" /\ reply.ok
       THEN LET styleGuide == trim(reply.content)
                format == IF flags.author THEN custom ELSE repoFormat
            IN /\ config' = [format |-> format,
                             defaultStyle |-> <<styleGuide>>,
                             authorStyle |-> IF flags.author
                                             THEN <<styleGuide>>
                                             ELSE config.authorStyle]
               /\ loc' = [selectedFormat |-> format,
                          styleGuide |-> styleGuide]
       ELSE /\ config' = config
            /\ loc' = [loc EXCEPT !.selectedFormat = conventional]
  /\ pc' = "cfg_staged"
  /\ UNCHANGED <<flags, result, configFrame>>

\* main, lines 443-450: --format without --learn stores the selected
\* format as the default when the name given is the start of a format's.
Cfg_StoreFormat ==
  /\ pc = "cfg_store"
  /\ config' = IF isKnownFormat(flags.format)
               THEN [config EXCEPT !.format = loc.selectedFormat]
               ELSE config
  /\ pc' = "cfg_staged"
  /\ UNCHANGED <<flags, loc, result, configFrame>>

\* main, lines 454-500: with nothing staged the run ends; otherwise the
\* system prompt is built.
Cfg_Prompt ==
  /\ pc = "cfg_staged"
  /\ \E files \in 0..1 :
       IF noStagedChanges(files)
       THEN /\ result' = result
            /\ pc' = "cfg_exit"
       ELSE /\ result' = <<systemPromptOf(loc.selectedFormat,
                                          getStoredCommitStyle(config,
                                                               flags))>>
            /\ pc' = "cfg_prompted"
  /\ UNCHANGED <<flags, config, loc, configFrame>>

\* The next invocation of main, with a command line of its own; the
\* configuration directory is as the last invocation left it.
Cfg_Invoke ==
  /\ pc \in {"cfg_exit", "cfg_prompted"}
  /\ flags' \in ConfigLines
  /\ loc' = ConfigLocStart
  /\ result' = <<>>
  /\ pc' = "cfg_reset"
  /\ UNCHANGED <<config, configFrame>>

NextConfig ==
  \/ Cfg_Reset
  \/ Cfg_Select
  \/ Cfg_Learn
  \/ Cfg_StoreFormat
  \/ Cfg_Prompt
  \/ Cfg_Invoke

SpecConfig == InitConfig /\ [][NextConfig]_vars

\* The text of the style file the invocation reads: the author's where
\* --author is given and the file is there, the default one otherwise.
storedStyle ==
  LET file == IF flags.author /\ config.authorStyle # <<>>
              THEN config.authorStyle
              ELSE config.defaultStyle
  IN IF file = <<>> THEN <<>> ELSE file[1]

\* C16 as stated: once a style has been learned and stored, an invocation
\* given neither --learn nor --format builds its prompt from the stored
\* style, and an invocation given --format builds it from the template of
\* the format named.
C16_LearnedStyleUsed ==
  (pc = "cfg_prompted" /\ ~flags.learn) =>
    IF flags.format = <<>>
    THEN storedStyle # <<>> =>
           result[1] = [guide |-> TRUE, text |-> storedStyle]
    ELSE result[1] = [guide |-> FALSE,
                      text |-> getFormatTemplate(formatOf(flags.format))]

\* C16 as the code has it: a successful --learn stores the style guide as
\* the default style, with --author as the author's style too, and stores
\* repo (custom with --author) as the default format. An invocation given
\* neither --learn nor --format builds its prompt from the stored style
\* while the stored default format is still repo or custom, and from the
\* template of the stored default format otherwise. An invocation given
\* --format without --learn builds its prompt from the template of the
\* format the name stands for, except that repo and custom select the
\* stored style where there is one.
C16_StoredStyleWhileFormatLearned ==
  /\ (pc \in {"cfg_staged", "cfg_prompted"} /\ flags.learn
      /\ loc.selectedFormat \in {repoFormat, custom}) =>
       /\ config.defaultStyle = <<loc.styleGuide>>
       /\ flags.author => config.authorStyle = <<loc.styleGuide>>
       /\ config.format = (IF flags.author THEN custom ELSE repoFormat)
  /\ (pc = "cfg_prompted" /\ ~flags.learn /\ flags.format = <<>>) =>
       result[1] =
         IF config.format \in {repoFormat, custom} /\ storedStyle # <<>>
         THEN [guide |-> TRUE, text |-> storedStyle]
         ELSE [guide |-> FALSE,
               text |-> IF config.format = <<>> THEN conventional
                        ELSE getFormatTemplate(config.format)]
  /\ (pc = "cfg_prompted" /\ ~flags.learn /\ flags.format # <<>>) =>
       result[1] =
         IF formatOf(flags.format) \in {repoFormat, custom}
            /\ storedStyle # <<>>
         THEN [guide |-> TRUE, text |-> storedStyle]
         ELSE [guide |-> FALSE,
               text |-> getFormatTemplate(formatOf(flags.format))]

\* A run without flags builds its prompt from the style an earlier run
\* learned.
C16_Witness ==
  /\ pc = "cfg_prompted"
  /\ flags = flagsOf({}, <<>>, <<>>)
  /\ config.format = repoFormat
  \* "Use emoji."
  /\ result = <<[guide |-> TRUE, text |-> <<"U", "s", "e", " ", "e", "m",
      "o", "j", "i", ".">>]>>

---------------------------------------------------------------------------
\* parseFlags of cli.ts, one action per iteration of its loop. inDiff is
\* args; loc holds the locals i and flags, flags as a function from the
\* names set so far to their values; result is <<flags>> once returned.

MaxArgs == 2

ArgTokens ==
  {<<"-", "-", "f", "o", "r", "m", "a", "t">>, <<"s", "e", "m", "a", "n",
      "t", "i", "c">>, <<"-", "-", "f", "o", "r", "m", "a", "t", "=", "s",
      "e", "m", "a", "n", "t", "i", "c">>, <<"-", "-", "m", "o", "d", "e",
      "l", "=", "g", "p", "t", "-", "4", "o">>,
   <<"-", "-", "l", "e", "a", "r", "n">>, <<"-", "v">>}

RECURSIVE argLists(_)
argLists(n) ==
  IF n = 0 THEN {<<>>}
  ELSE LET shorter == argLists(n - 1)
       IN shorter \cup {Append(a, t) : a \in shorter, t \in ArgTokens}

\* flags[flagName] = true
flagTrue == [isTrue |-> TRUE, text |-> <<>>]

\* flags[flagName] = args[i + 1]
flagText(text) == [isTrue |-> FALSE, text |-> text]

\* arg.slice(n)
sliceFrom(s, n) == SubSeq(s, n + 1, Len(s))

\* flags[flagName] = value
setFlag(f, flagName, value) ==
  [n \in DOMAIN f \cup {flagName} |-> IF n = flagName THEN value ELSE f[n]]

\* Lines 18-34: the argument args[i] starts with dashes. The rest of it is
\* the flag's name; the next argument is its value unless there is none or
\* it starts with dashes too, and then the flag is true.
flagStep(args, i, f, dashes) ==
  LET flagName == sliceFrom(args[i], Len(dashes))
  IN IF i + 1 <= Len(args) /\ ~startsWith(args[i + 1], dashes)
     THEN [i |-> i + 2, flags |-> setFlag(f, flagName, flagText(args[i + 1]))]
     ELSE [i |-> i + 1, flags |-> setFlag(f, flagName, flagTrue)]

InitFlags ==
  /\ pc = "pf_loop"
  /\ inDiff \in argLists(MaxArgs)
  /\ loc = [i |-> 1, flags |-> <<>>]
  /\ result = <<>>
  /\ inIssues = <<>>
  /\ inKeywords = <<>>
  /\ inMaxLength = 0
  /\ again = <<>>
  /\ flags = <<>>
  /\ config = <<>>
  /\ stagedFiles = 0
  /\ origin = <<>>
  /\ sel = <<>>
  /\ io = <<>>
  /\ commits = 0
  /\ generation = "none"

flagsFrame ==
  <<inDiff, inIssues, inKeywords, inMaxLength, again, flags, config,
    stagedFiles, origin, sel, io, commits, generation>>

\* Lines 15-35: one iteration of the loop.
Pf_Step ==
  /\ pc = "pf_loop"
  /\ loc.i <= Len(inDiff)
  /\ loc' = IF startsWith(inDiff[loc.i], <<"-", "-">>)
            THEN flagStep(inDiff, loc.i, loc.flags, <<"-", "-">>)
            ELSE IF startsWith(inDiff[loc.i], <<"-">>)
            THEN flagStep(inDiff, loc.i, loc.flags, <<"-">>)
            ELSE [loc EXCEPT !.i = loc.i + 1]
  /\ UNCHANGED <<pc, result, flagsFrame>>

\* Line 37: return flags.
Pf_Return ==
  /\ pc = "pf_loop"
  /\ loc.i > Len(inDiff)
  /\ result' = <<loc.flags>>
  /\ pc' = "pf_done"
  /\ UNCHANGED <<loc, flagsFrame>>

NextFlags ==
  \/ Pf_Step
  \/ Pf_Return

SpecFlags == InitFlags /\ [][NextFlags]_vars

\* The option an argument that starts with -- spells: its name, and its
\* value where the argument holds an = (the value is what follows the
\* first =) or is followed by an argument without leading dashes.
spelled(args, k) ==
  LET body == sliceFrom(args[k], 2)
      at == {j \in DOMAIN body : body[j] = "="}
      first == CHOOSE j \in at : \A h \in at : j <= h
  IN IF at # {}
     THEN [name |-> SubSeq(body, 1, first - 1), valued |-> TRUE,
           value |-> sliceFrom(body, first)]
     ELSE IF k + 1 <= Len(args) /\ ~startsWith(args[k + 1], <<"-">>)
     THEN [name |-> body, valued |-> TRUE, value |-> args[k + 1]]
     ELSE [name |-> body, valued |-> FALSE, value |-> <<>>]

\* C17: of the arguments --name=value and --name value, the last one that
\* names a given option makes parseFlags return that option with that
\* value.
C17_BothSpellings ==
  pc = "pf_done" =>
    \A k \in DOMAIN inDiff :
      LET o == spelled(inDiff, k)
      IN (/\ startsWith(inDiff[k], <<"-", "-">>)
          /\ o.valued
          /\ \A j \in DOMAIN inDiff :
               (j > k /\ startsWith(inDiff[j], <<"-", "-">>))
                 => spelled(inDiff, j).name # o.name)
           => /\ o.name \in DOMAIN result[1]
              /\ result[1][o.name] = flagText(o.value)

---------------------------------------------------------------------------
\* The keyword searches of the issue selection, under Spec.

fallbackSearch == "gh issue list --limit 5 --search"

keywordSearch == "gh issue list --limit 15 --search"

\* The calls the step adds to the log of the selection under way.
newCalls ==
  IF Len(sel'.calls) > Len(sel.calls)
  THEN {sel'.calls[i] : i \in (Len(sel.calls) + 1)..Len(sel'.calls)}
  ELSE {}

firstThree(keywords) ==
  IF Len(keywords) <= 3 THEN keywords ELSE SubSeq(keywords, 1, 3)

---------------------------------------------------------------------------
\* C21: every candidate list at the prompt of searchAndSelectIssue has at
\* most 5 entries, whichever path produced it.
C21_AtMostFive ==
  pc = "sel_prompt" => Len(sel.allIssues) <= MaxResults

---------------------------------------------------------------------------
\* The diff names no issue and the lexical extractor finds no keyword in
\* it.
noReferenceNoKeyword ==
  uniqueIssuesOf(inDiff) = <<>> /\ extractKeywordsFromDiff(inDiff) = <<>>

\* C22 as stated: for a diff without #n and without lexical keywords the
\* prompt shows no candidate list.
C22_NoCandidates ==
  (pc = "sel_prompt" /\ noReferenceNoKeyword) => sel.allIssues = <<>>

\* C22 as the code has it. For a diff without #n and without lexical
\* keywords searchAndSelectIssue makes no keyword search of its own, and
\* the fallback search of getRelatedIssues is made only with keywords of the
\* language model. Candidates are listed in two cases: open issues that the
\* relevance scorer gives a positive score, from the important and
\* technical terms of the whole diff, removed lines included; and what the
\* fallback search returned. With no keywords of the language model and no
\* such term in the diff, no candidate is listed.
C22_CandidatesFromScorerOrModel ==
  (pc = "sel_prompt" /\ noReferenceNoKeyword) =>
    /\ ~didCall(sel.calls, {keywordSearch})
    /\ didCall(sel.calls, {fallbackSearch})
         => didCall(sel.calls, {"llm keywords"})
    /\ (sel.allIssues # <<>> /\ ~didCall(sel.calls, {fallbackSearch}))
         => \A i \in DOMAIN sel.allIssues :
              /\ "score" \in DOMAIN sel.allIssues[i]
              /\ sel.allIssues[i].score > 0
    /\ (/\ ~didCall(sel.calls, {"llm keywords"})
        /\ extractImportantTerms(inDiff) = {}
        /\ \A i \in DOMAIN technicalTerms :
             ~arrayIncludes(diffWordsOf(inDiff), technicalTerms[i]))
         => sel.allIssues = <<>>

\* No keyword and no term in the diff, no language model at hand: the open
\* issues were listed and the prompt shows no candidate.
C22_Witness ==
  /\ pc = "sel_prompt"
  /\ inDiff = diffBlank
  /\ didCall(sel.calls, {"gh issue list --limit 30 --state open"})
  /\ ~didCall(sel.calls, {"llm keywords"})
  /\ sel.allIssues = <<>>

---------------------------------------------------------------------------
\* C23: what either extractor returns holds at most 20 keywords and no
\* keyword twice.
C23_CappedNoRepeats ==
  /\ Len(result) <= KeywordLimit
  /\ \A i, j \in DOMAIN result : i # j => result[i] # result[j]

\* The language model named more keywords than are returned.
C23_Witness ==
  /\ pc = "kw_returned"
  /\ Len(result) = KeywordLimit
  \* "worda"
  /\ result[1] = <<"w", "o", "r", "d", "a">>
  \* "wordt"
  /\ result[KeywordLimit] = <<"w", "o", "r", "d", "t">>

---------------------------------------------------------------------------
\* The sub-words of a camelCase word: the word cut before each capital
\* that follows a small letter, in small letters.
subWordsOf(word) == splitOn(toLowerCase(spaceCamelCase(word)), {" "})

\* C24: the lexical extractor returns, for every camelCase word of the
\* added lines, the word in small letters and each of its sub-words of at
\* least 4 characters, unless the limit of 20 keywords is reached.
C24_CamelCaseSubWords ==
  (pc = "kw_lexical" /\ Len(result) < KeywordLimit) =>
    \A k \in DOMAIN rawWordsOf(inDiff) :
      LET word == rawWordsOf(inDiff)[k]
      IN hasCamelCase(word) =>
           /\ inResult(toLowerCase(word))
           /\ \A i \in DOMAIN subWordsOf(word) :
                Len(subWordsOf(word)[i]) >= 4
                  => inResult(subWordsOf(word)[i])

---------------------------------------------------------------------------
\* The external calls of one invocation of main, each with its start and
\* its completion. io is the set of calls outstanding; loc.step is the call
\* main is at; flags.kernel says whether the kernel format is selected, in
\* which case getCommitMessage calls getGitAuthor; again is <<what the two
\* lookups print>> and result is <<what getGitAuthor returned>>.

\* The awaited calls of main, in program order.
CallSteps ==
  <<"git diff --staged --name-only", "git diff --staged", "gh issue list",
    "getGitAuthor", "llm commit message", "git commit -m">>

AuthorLookups == {"git config user.name", "git config user.email"}

NameOutputs == {<<"\n">>, <<"A", "n", "n", "\n">>, <<" ", "B", "o", "b", " ",
    "B", " ", "\n">>}

EmailOutputs == {<<"\n">>, <<"a", "n", "n", "@", "x", ".", "i", "o", "\n">>,
    <<"b", "o", "b", "@", "x", ".", "i", "o", " ", "\n">>}

authorByArrival(printed, order) ==
  [name |-> trim(printed[order[1]]), email |-> trim(printed[order[2]])]

\* getGitAuthor, lines 157-160: the name from nameOutput and the email from
\* emailOutput, the first and second element of what Promise.all resolves
\* to, whichever lookup completed first.
authorOf(printed, order) ==
  [name |-> trim(printed["git config user.name"]),
   email |-> trim(printed["git config user.email"])]

CallsLocStart == [step |-> 1, order |-> <<>>]

InitCalls ==
  /\ pc = "c_idle"
  /\ flags \in {[kernel |-> TRUE], [kernel |-> FALSE]}
  /\ io = {}
  /\ loc = CallsLocStart
  /\ result = <<>>
  /\ again = <<>>
  /\ inDiff = <<>>
  /\ inIssues = <<>>
  /\ inKeywords = <<>>
  /\ inMaxLength = 0
  /\ config = <<>>
  /\ stagedFiles = 0
  /\ origin = <<>>
  /\ sel = <<>>
  /\ commits = 0
  /\ generation = "none"

callsFrame ==
  <<inDiff, inIssues, inKeywords, inMaxLength, flags, config, stagedFiles,
    origin, sel, commits, generation>>

\* The step main goes to after step n: getGitAuthor is called for the
\* kernel format only (part_004, line 94).
stepAfter(n) ==
  IF CallSteps[n + 1] = "getGitAuthor" /\ ~flags.kernel THEN n + 2
  ELSE n + 1

\* await command.output(): the call is started.
Call_Issue ==
  /\ pc = "c_idle"
  /\ CallSteps[loc.step] # "getGitAuthor"
  /\ io' = io \cup {CallSteps[loc.step]}
  /\ pc' = "c_wait"
  /\ UNCHANGED <<loc, result, again, callsFrame>>

\* The awaited call completes. A failure ends the run; after the commit
\* message is there the user is asked; the commit is the last call.
Call_Complete ==
  /\ pc = "c_wait"
  /\ io' = io \ {CallSteps[loc.step]}
  /\ \E ok \in BOOLEAN :
       IF ~ok \/ CallSteps[loc.step] = "git commit -m"
       THEN pc' = "c_done" /\ loc' = loc
       ELSE IF CallSteps[loc.step] = "llm commit message"
       THEN pc' = "c_prompt" /\ loc' = loc
       ELSE pc' = "c_idle" /\ loc' = [loc EXCEPT !.step = stepAfter(@)]
  /\ UNCHANGED <<result, again, callsFrame>>

\* getGitAuthor, lines 143-155: both lookups are started before either is
\* awaited.
Author_Issue ==
  /\ pc = "c_idle"
  /\ CallSteps[loc.step] = "getGitAuthor"
  /\ io' = io \cup AuthorLookups
  /\ \E name \in NameOutputs, email \in EmailOutputs :
       again' = <<[c \in AuthorLookups |->
                     IF c = "git config user.name" THEN name ELSE email]>>
  /\ pc' = "c_author"
  /\ UNCHANGED <<loc, result, callsFrame>>

\* One of the two lookups completes.
Author_Complete ==
  /\ pc = "c_author"
  /\ \E c \in io \cap AuthorLookups :
       /\ io' = io \ {c}
       /\ loc' = [loc EXCEPT !.order = Append(@, c)]
  /\ UNCHANGED <<pc, result, again, callsFrame>>

\* Promise.all resolves once both have completed; getGitAuthor returns.
Author_Return ==
  /\ pc = "c_author"
  /\ Len(loc.order) = Cardinality(AuthorLookups)
  /\ result' = <<authorOf(again[1], loc.order)>>
  /\ loc' = [loc EXCEPT !.step = stepAfter(@)]
  /\ pc' = "c_idle"
  /\ UNCHANGED <<io, again, callsFrame>>

\* main, lines 509-532: (a)ccept commits; (n)ew calls main again, without
\* awaiting it, and the calling main does nothing more; any other answer
\* ends the run.
Call_Answer ==
  /\ pc = "c_prompt"
  /\ \E answer \in {"a", "n", "r"} :
       IF answer = "a"
       THEN /\ loc' = [loc EXCEPT !.step = stepAfter(@)]
            /\ pc' = "c_idle"
            /\ UNCHANGED <<result, again>>
       ELSE IF answer = "n"
       THEN /\ loc' = CallsLocStart
            /\ pc' = "c_idle"
            /\ result' = <<>>
            /\ again' = <<>>
       ELSE /\ pc' = "c_done"
            /\ UNCHANGED <<loc, result, again>>
  /\ UNCHANGED <<io, callsFrame>>

NextCalls ==
  \/ Call_Issue
  \/ Call_Complete
  \/ Author_Issue
  \/ Author_Complete
  \/ Author_Return
  \/ Call_Answer

SpecCalls == InitCalls /\ [][NextCalls]_vars

\* C25: at most one external call is outstanding, except the two lookups
\* of getGitAuthor, which are outstanding together and with nothing else;
\* the name getGitAuthor returns is what the name lookup printed and the
\* email what the email lookup printed, trimmed, in whichever order the two
\* completed.
C25_OneOutstanding ==
  /\ Cardinality(io) <= 1 \/ io = AuthorLookups
  /\ result # <<>> =>
       /\ result[1].name = trim(again[1]["git config user.name"])
       /\ result[1].email = trim(again[1]["git config user.email"])

\* The email lookup completed first.
C25_Witness ==
  /\ result = <<[name |-> <<"B", "o", "b", " ", "B">>, email |-> <<"a", "n",
      "n", "@", "x", ".", "i", "o">>]>>
  /\ loc.order = <<"git config user.email", "git config user.name">>
  /\ io = {"llm commit message"}

---------------------------------------------------------------------------
\* C26: what truncateLongDiff returns for a diff longer than maxLength is
\* no longer than maxLength; a diff of at most maxLength characters is
\* returned unchanged.
C26_WithinBudget ==
  pc = "truncated" =>
    IF Len(inDiff) <= inMaxLength THEN result = inDiff
    ELSE Len(result) <= inMaxLength

---------------------------------------------------------------------------
\* What the user answered to (a)ccept, (e)dit, (r)eject, (n)ew message?,
\* in a step from that prompt.
answerGiven ==
  IF io'[1].cmd = "Generating new message..." /\ Len(io') = 1
  THEN toLowerCase(io'[1].arg)
  ELSE toLowerCase(io'[Len(io) + 1].arg)

\* C27: git commit is run at most once in an invocation, however often a
\* new message is asked for. The answer n starts main afresh, without a
\* commit, and every prompt follows a generation of its own; any other
\* answer ends the invocation, through the editor for e; nothing follows
\* the end.
C27_OneCommit ==
  [][/\ commits' <= 1
     /\ pc # "exit"
     /\ pc = "answer" =>
          IF answerGiven = <<"n">>
          THEN pc' = "main" /\ commits' = commits /\ loc' = LocStart
          ELSE pc' \in {"exit", "edit"}
     /\ pc = "edit" => pc' = "exit"
     /\ pc' = "answer" =>
          /\ pc = "generate"
          /\ Cardinality({i \in DOMAIN io' :
                            io'[i].cmd = "llm commit message"}) = 1
          /\ io'[Len(io')].cmd = "displayCommitMessage"
          /\ commits' = 0]_vars

\* A message asked for anew was accepted and committed.
C27_Witness ==
  /\ pc = "exit"
  /\ commits = 1
  /\ io[1] = Call("Generating new message...", <<"n">>)
  /\ didCall(io, {"git commit -m"})

---------------------------------------------------------------------------
\* What was typed at the last prompt of the selection.
lastChoice ==
  LET at == {i \in DOMAIN sel.calls :
               sel.calls[i].cmd \in {"prompt: select an issue",
                                     "prompt: enter issue ID"}}
  IN sel.calls[CHOOSE i \in at : \A k \in at : k <= i].arg

\* C28: every gh issue view is for a number above 0, and an input that is
\* neither #n nor n with n > 0 leads to no lookup and selects nothing.
C28_PositiveLookups ==
  /\ \A i \in DOMAIN sel.calls :
       sel.calls[i].cmd = "gh issue view" => toNumber(sel.calls[i].arg) > 0
  /\ pc = "sel_view" => sel.issueNumber > 0
  /\ (/\ pc \in {"sel_view", "sel_returned"}
      /\ didCall(sel.calls, {"prompt: select an issue",
                             "prompt: enter issue ID"})
      /\ ~isReference(lastChoice)
      /\ ~(isBareNumber(lastChoice) /\ toNumber(lastChoice) > 0)) =>
       /\ pc = "sel_returned"
       /\ ~didCall(sel.calls, {"gh issue view"})
       /\ sel.selectedIssue = JsNull

---------------------------------------------------------------------------
---------------------------------------------------------------------------
\* The post-processing of getCommitMessage over responses of the model
\* made of a few lines. inDiff is the response of the model and result is
\* <<what getCommitMessage gives for it>>.

MaxLines == 4

ResponseLines ==
  {<<>>, <<" ", " ">>, <<"f", "e", "a", "t", ":", " ", "a", "d", "d", " ",
      "x">>, <<"-", " ", "o", "n", "e">>, <<" ", "-", " ", "t", "w", "o",
      " ">>, <<"B", "R", "E", "A", "K", "I", "N", "G", " ", "C", "H", "A",
      "N", "G", "E", ":", " ", "y">>,
   \* " BREAKING CHANGE: z"
   <<" ", "B", "R", "E", "A", "K", "I", "N", "G", " ", "C", "H", "A", "N",
       "G", "E", ":", " ", "z">>}

responsesOf(n) ==
  {join(ls, <<"\n">>) : ls \in UNION {[1..k -> ResponseLines] : k \in 0..n}}

InitMessage ==
  /\ pc = "msg_reply"
  /\ inDiff \in responsesOf(MaxLines)
  /\ inIssues = <<>>
  /\ inKeywords = <<>>
  /\ inMaxLength = 0
  /\ result = <<>>
  /\ again = <<>>
  /\ FlowIdle

\* part_004, lines 144-190: the response is awaited and post-processed.
Msg_PostProcess ==
  /\ pc = "msg_reply"
  /\ result' = <<getCommitMessage(LLMText(inDiff))>>
  /\ pc' = "msg_done"
  /\ UNCHANGED <<inDiff, inIssues, inKeywords, inMaxLength, again>>
  /\ UNCHANGED flowVars

NextMessage == Msg_PostProcess

SpecMessage == InitMessage /\ [][NextMessage]_vars

\* The lines of a text, the empty ones included.
RECURSIVE allLines(_)
allLines(s) ==
  LET ends == {i \in 1..Len(s) : s[i] = "\n"}
      n == CHOOSE i \in ends : \A k \in ends : i <= k
  IN IF ends = {} THEN <<s>>
     ELSE <<SubSeq(s, 1, n - 1)>> \o allLines(SubSeq(s, n + 1, Len(s)))

isBlankLine(line) == \A i \in DOMAIN line : line[i] \in {" ", "\t", "\r"}

\* C30: the message keeps every non-blank line of the response of the model
\* (the text createMessage returns for it, which has no white space at its
\* ends) once, unchanged and in its order: the first of them is the header; the
\* lines after it up to the first one starting with BREAKING CHANGE: follow
\* one blank line, and that line with all after it follows one more blank
\* line; a response without a non-blank line is an error and gives no
\* message.
C30_LinesKeptInOrder ==
  pc = "msg_done" =>
    LET kept == SelectSeq(allLines(trim(inDiff)),
                          LAMBDA line : ~isBlankLine(line))
        out == allLines(result[1].message)
        marks == {i \in 2..Len(kept) :
                    \* "BREAKING CHANGE:"
                    startsWith(kept[i], <<"B", "R", "E", "A", "K", "I", "N",
                        "G", " ", "C", "H", "A", "N", "G", "E", ":">>)}
        first == IF marks = {} THEN Len(kept) + 1
                 ELSE CHOOSE i \in marks : \A k \in marks : i <= k
    IN IF kept = <<>> THEN ~result[1].ok
       ELSE /\ result[1].ok
            /\ SelectSeq(out, LAMBDA line : ~isBlankLine(line)) = kept
            /\ out = <<kept[1]>>
                 \o (IF first > 2 THEN <<<<>>>> \o SubSeq(kept, 2, first - 1)
                     ELSE <<>>)
                 \o (IF first <= Len(kept)
                     THEN <<<<>>>> \o SubSeq(kept, first, Len(kept))
                     ELSE <<>>)

C30_Witness ==
  /\ pc = "msg_done"
  \* "feat: add x\n- one\nBREAKING CHANGE: y\n - two "
  /\ inDiff = <<"f", "e", "a", "t", ":", " ", "a", "d", "d", " ", "x", "\n",
      "-", " ", "o", "n", "e", "\n", "B", "R", "E", "A", "K", "I", "N", "G",
      " ", "C", "H", "A", "N", "G", "E", ":", " ", "y", "\n", " ", "-", " ",
      "t", "w", "o", " ">>
  /\ result[1].ok
  \* "feat: add x\n\n- one\n\nBREAKING CHANGE: y\n - two"
  /\ result[1].message = <<"f", "e", "a", "t", ":", " ", "a", "d", "d", " ",
      "x", "\n", "\n", "-", " ", "o", "n", "e", "\n", "\n", "B", "R", "E",
      "A", "K", "I", "N", "G", " ", "C", "H", "A", "N", "G", "E", ":", " ",
      "y", "\n", " ", "-", " ", "t", "w", "o">>

====
